---- MODULE Spec2Model ----
(***************************************************************************)
(* Dataset-aware optimisation problems: source resolution, lazy loading,   *)
(* the TSPLIB coordinate parser and the tour evaluator.                    *)
(*                                                                         *)
(* Modelled classes                                                        *)
(*   BaseProblem              services/enhancedBaseProblem.py              *)
(*   DatasetAwareProblem      services/datasetAwareProblem.py              *)
(*   DatasetAwareTSPProblem   services/datasetAwareProblem.py              *)
(*   DatasetAwareVRPProblem   services/datasetAwareProblem.py              *)
(*   /execute endpoint        playground-environment/qubots_api_server.py  *)
(*                                                                         *)
(* Specifications                                                          *)
(*   Spec        one instance and the calls made on it                     *)
(*   FormatSpec  validate_dataset_format on the format payloads            *)
(*   RaceSpec    two contexts in the lazy accessors of one BaseProblem     *)
(*   ParseSpec   the coordinate parser on irregular payloads               *)
(*   EvalSpec    two contexts evaluating on one ready instance             *)
(*   ExecSpec    sequences of requests to /execute                         *)
(*                                                                         *)
(* Conventions                                                             *)
(*   - Python None is the string None ("<None>"); an Optional[str] is      *)
(*     truthy when it is neither None nor "".                              *)
(*   - A text is a sequence of lines, a line the sequence of its           *)
(*     whitespace-separated tokens (what line.strip().split() yields).     *)
(*   - Python list index i is position i+1 of the TLA+ sequence.           *)
(*   - A float distance d is held in fixed point as floor(d * 1000).       *)
(***************************************************************************)
EXTENDS Integers, Sequences, FiniteSets, TLC

VARIABLES
    cls,      \* class of the instance under construction / constructed
    pc,       \* "new" before __init__ ran, "ready" after it returned, "dead" after it raised
    args,     \* keyword arguments __init__ was called with
    bp,       \* attributes of the BaseProblem instance
    da,       \* attributes of the DatasetAwareTSPProblem instance
    io_log,   \* every network request and file read issued, in order
    stdout,   \* warnings printed by the loaders
    n_loads,  \* number of executions of _load_dataset
    ret,      \* outcome of the last call made on the instance
    ctx,      \* locals of each execution context calling into one shared instance
    srv       \* workspace of the API server: repository directories and requests

vars == <<cls, pc, args, bp, da, io_log, stdout, n_loads, ret, ctx, srv>>

-----------------------------------------------------------------------------
(* Values *)

None == "<None>"

\* bool(x) for an Optional[str]
Truthy(x) == x # None /\ x # ""

\* dataset_content: None, or a text
NoContent == [none |-> TRUE, lines |-> <<>>]
Text(ls) == [none |-> FALSE, lines |-> ls]
\* bool(self.dataset_content): None and "" are falsy
ContentTruthy(c) == ~c.none /\ c.lines # <<>>

\* a metadata dict is the set of its (key, value) items
EmptyDict == {}

\* values a caller passes for dataset_source: the five documented ones and a foreign one
SourceArgs == {"auto", "platform", "url", "local", "none", "ftp"}
ConcreteKinds == {"platform", "url", "local", "none"}

IdArgs == {None, "", "uuid-123"}
UrlArgs == {None, "", "https://example.com/data.tsp"}
FileArgs == {None, "", "test4.tsp"}
TokenArgs == {None, "token"}

ArgSets ==
    [dataset_source : SourceArgs, dataset_id : IdArgs, dataset_url : UrlArgs,
     instance_file : FileArgs, auth_token : TokenArgs]

-----------------------------------------------------------------------------
(* Payloads: the texts a registry, a URL or a file may hold *)

\* tests/test_modernized_problems.py: the 4-city unit square
Square4 ==
    << <<"NAME:", "test4">>,
       <<"TYPE:", "TSP">>,
       <<"DIMENSION:", "4">>,
       <<"EDGE_WEIGHT_TYPE:", "EUC_2D">>,
       <<"NODE_COORD_SECTION">>,
       <<"1", "0", "0">>,
       <<"2", "1", "0">>,
       <<"3", "1", "1">>,
       <<"4", "0", "1">>,
       <<"EOF">> >>

\* declares 4 nodes, lists 2, has no EOF line
Short2 ==
    << <<"DIMENSION:", "4">>,
       <<"NODE_COORD_SECTION">>,
       <<"1", "0", "0">>,
       <<"2", "3", "4">> >>

\* a header and no coordinate section
HeaderOnly ==
    << <<"TYPE:", "TSP">>,
       <<"DIMENSION:", "4">> >>

\* a non-numeric dimension
BadDimension ==
    << <<"DIMENSION:", "four">>,
       <<"NODE_COORD_SECTION">>,
       <<"1", "0", "0">> >>

\* the empty text ""
EmptyText == <<>>

Payloads == {Square4, Short2, HeaderOnly, BadDimension, EmptyText}

\* the "metadata" field of the registry's response
Metadatas == {EmptyDict, {<<"format", "tsplib">>, <<"dimension", "4">>}}

\* What the outside world answers during one load: whether the requests
\* library can be imported, the outcome of each request or read, and the data.
\* AllOk is the world in which everything succeeds.
AllOk(p, m) ==
    [requests |-> TRUE, meta |-> "ok", download |-> "ok", url |-> "ok",
     file |-> "ok", payload |-> p, metadata |-> m]

\* Every payload and metadata where all requests succeed; one failure at a
\* time otherwise (the data a failed request would have carried is not read,
\* except the metadata received before a failed download).
Worlds ==
    { AllOk(p, m) : p \in Payloads, m \in Metadatas }
    \cup { [AllOk(Square4, m) EXCEPT !.download = "http_error"] : m \in Metadatas }
    \cup { [AllOk(Square4, EmptyDict) EXCEPT !.requests = FALSE],
           [AllOk(Square4, EmptyDict) EXCEPT !.meta = "http_error"],
           [AllOk(Square4, EmptyDict) EXCEPT !.meta = "bad_body"],
           [AllOk(Square4, EmptyDict) EXCEPT !.url = "http_error"],
           [AllOk(Square4, EmptyDict) EXCEPT !.file = "missing"],
           [AllOk(Square4, EmptyDict) EXCEPT !.file = "unreadable"] }

\* an entry of io_log
Request(kind, target, auth) ==
    [kind |-> kind, target |-> target, auth |-> auth, result |-> "ok"]

\* the request r when the world answered it with a failure
Answered(r, result) == [r EXCEPT !.result = result]

\* the outcome of running a method body: the instance afterwards, the I/O it
\* issued, what it printed, and the exception it raised (None: it returned)
Returned(self, io, out) == [self |-> self, io |-> io, out |-> out, err |-> None]
Raised(self, io, out, e) == [self |-> self, io |-> io, out |-> out, err |-> e]

-----------------------------------------------------------------------------
(* BaseProblem *)

\* bug: the URL is tried before the registry id
Mut_determine_url_first(dataset_source, dataset_id, dataset_url, instance_file) ==
    IF dataset_source # "auto" THEN dataset_source
    ELSE IF Truthy(dataset_url) THEN "url"
    ELSE IF Truthy(dataset_id) THEN "platform"
    ELSE IF Truthy(instance_file) THEN "local"
    ELSE "none"

\* bug: with no identifier at all the requested kind is handed back
Mut_determine_keep_auto(dataset_source, dataset_id, dataset_url, instance_file) ==
    IF dataset_source # "auto" THEN dataset_source
    ELSE IF Truthy(dataset_id) THEN "platform"
    ELSE IF Truthy(dataset_url) THEN "url"
    ELSE IF Truthy(instance_file) THEN "local"
    ELSE dataset_source

_determine_data_source(dataset_source, dataset_id, dataset_url, instance_file) ==
    IF dataset_source # "auto" THEN dataset_source
    ELSE IF Truthy(dataset_id) THEN "platform"
    ELSE IF Truthy(dataset_url) THEN "url"
    ELSE IF Truthy(instance_file) THEN "local"
    ELSE "none"

\* __init__: resolves the source, stores the parameters, fetches nothing
BaseProblem_init(a) ==
    [dataset_source   |-> _determine_data_source(a.dataset_source, a.dataset_id,
                                                 a.dataset_url, a.instance_file),
     dataset_content  |-> NoContent,
     dataset_metadata |-> EmptyDict,
     _dataset_loaded  |-> FALSE,
     _dataset_error   |-> None,
     dataset_id       |-> a.dataset_id,
     dataset_url      |-> a.dataset_url,
     instance_file    |-> a.instance_file,
     auth_token       |-> a.auth_token]

\* bug: the source kind is left to auto-detection
Mut_from_platform_auto(dataset_id, auth_token, kwargs) ==
    BaseProblem_init([dataset_source |-> "auto",
                      dataset_id     |-> dataset_id,
                      dataset_url    |-> kwargs.dataset_url,
                      instance_file  |-> kwargs.instance_file,
                      auth_token     |-> auth_token])

\* cls(dataset_source="platform", dataset_id=dataset_id, auth_token=auth_token, **kwargs)
from_platform(dataset_id, auth_token, kwargs) ==
    BaseProblem_init([dataset_source |-> "platform",
                      dataset_id     |-> dataset_id,
                      dataset_url    |-> kwargs.dataset_url,
                      instance_file  |-> kwargs.instance_file,
                      auth_token     |-> auth_token])

\* cls(dataset_source="url", dataset_url=dataset_url, **kwargs)
from_url(dataset_url, kwargs) ==
    BaseProblem_init([dataset_source |-> "url",
                      dataset_id     |-> kwargs.dataset_id,
                      dataset_url    |-> dataset_url,
                      instance_file  |-> kwargs.instance_file,
                      auth_token     |-> kwargs.auth_token])

\* cls(dataset_source="local", instance_file=instance_file, **kwargs)
from_file(instance_file, kwargs) ==
    BaseProblem_init([dataset_source |-> "local",
                      dataset_id     |-> kwargs.dataset_id,
                      dataset_url    |-> kwargs.dataset_url,
                      instance_file  |-> instance_file,
                      auth_token     |-> kwargs.auth_token])

\* the keyword arguments each convenience constructor passes on
PlatformKwargs == [dataset_url : UrlArgs, instance_file : FileArgs]
UrlKwargs == [dataset_id : IdArgs, instance_file : FileArgs, auth_token : TokenArgs]
FileKwargs == [dataset_id : IdArgs, dataset_url : UrlArgs, auth_token : TokenArgs]

\* auth_token values given to from_platform: absent, empty, set
PlatformTokens == TokenArgs \cup {""}

\* bug: the payload is requested and stored whatever the metadata request gave
Mut_load_platform_ignore_metadata(self, w) ==
    IF ~Truthy(self.dataset_id)
    THEN Raised(self, <<>>, <<>>, "ValueError: dataset_id required for platform source")
    ELSE IF ~w.requests
    THEN Raised(self, <<>>, <<>>, "ImportError: requests")
    ELSE
      LET auth == Truthy(self.auth_token)
          r1 == Answered(Request("GET metadata", self.dataset_id, auth), w.meta)
          r2 == Request("GET download", self.dataset_id, auth)
      IN  IF w.download = "http_error"
          THEN Raised(self, <<r1, Answered(r2, "http_error")>>, <<>>,
                      "Exception: Failed to load dataset from platform")
          ELSE Returned([self EXCEPT !.dataset_content = Text(w.payload)], <<r1, r2>>,
                        <<"Loaded dataset from platform">>)

Base_load_from_platform(self, w) ==
    IF ~Truthy(self.dataset_id)
    THEN Raised(self, <<>>, <<>>, "ValueError: dataset_id required for platform source")
    ELSE IF ~w.requests
    THEN Raised(self, <<>>, <<>>, "ImportError: requests")
    ELSE
      LET auth == Truthy(self.auth_token)
          r1 == Request("GET metadata", self.dataset_id, auth)
          r2 == Request("GET download", self.dataset_id, auth)
          s1 == [self EXCEPT !.dataset_metadata = w.metadata]
      IN  IF w.meta = "http_error"
          THEN Raised(self, <<Answered(r1, "http_error")>>, <<>>,
                      "Exception: Failed to load dataset from platform")
          ELSE IF w.meta = "bad_body"
          THEN Raised(self, <<Answered(r1, "bad_body")>>, <<>>, "KeyError: dataset")
          ELSE IF w.download = "http_error"
          THEN Raised(s1, <<r1, Answered(r2, "http_error")>>, <<>>,
                      "Exception: Failed to load dataset from platform")
          ELSE Returned([s1 EXCEPT !.dataset_content = Text(w.payload)], <<r1, r2>>,
                        <<"Loaded dataset from platform">>)

\* bug: the URL request carries the bearer credential of the instance
Mut_load_url_with_auth(self, w) ==
    IF ~Truthy(self.dataset_url)
    THEN Raised(self, <<>>, <<>>, "ValueError: dataset_url required for url source")
    ELSE IF ~w.requests
    THEN Raised(self, <<>>, <<>>, "ImportError: requests")
    ELSE
      LET r1 == Request("GET url", self.dataset_url, Truthy(self.auth_token))
      IN  IF w.url = "http_error"
          THEN Raised(self, <<Answered(r1, "http_error")>>, <<>>,
                      "Exception: Failed to load dataset from URL")
          ELSE Returned([self EXCEPT !.dataset_content = Text(w.payload)], <<r1>>,
                        <<"Loaded dataset from URL">>)

Base_load_from_url(self, w) ==
    IF ~Truthy(self.dataset_url)
    THEN Raised(self, <<>>, <<>>, "ValueError: dataset_url required for url source")
    ELSE IF ~w.requests
    THEN Raised(self, <<>>, <<>>, "ImportError: requests")
    ELSE
      LET r1 == Request("GET url", self.dataset_url, FALSE)
      IN  IF w.url = "http_error"
          THEN Raised(self, <<Answered(r1, "http_error")>>, <<>>,
                      "Exception: Failed to load dataset from URL")
          ELSE Returned([self EXCEPT !.dataset_content = Text(w.payload)], <<r1>>,
                        <<"Loaded dataset from URL">>)

Base_load_from_local(self, w) ==
    IF ~Truthy(self.instance_file)
    THEN Raised(self, <<>>, <<>>, "ValueError: instance_file required for local source")
    ELSE
      LET r1 == Request("read file", self.instance_file, FALSE)
      IN  IF w.file = "missing"
          THEN Raised(self, <<Answered(r1, "missing")>>, <<>>,
                      "FileNotFoundError: Dataset file not found")
          ELSE IF w.file = "unreadable"
          THEN Raised(self, <<Answered(r1, "unreadable")>>, <<>>,
                      "Exception: Failed to load local dataset")
          ELSE Returned([self EXCEPT !.dataset_content = Text(w.payload)], <<r1>>,
                        <<"Loaded dataset from local file">>)

\* bug: the loaded flag is set at the end of the try block instead of in finally
Mut_load_dataset_no_finally(self, w) ==
    LET r == CASE self.dataset_source = "none" ->
                    Returned([self EXCEPT !.dataset_content = NoContent,
                                          !.dataset_metadata = EmptyDict], <<>>, <<>>)
               [] self.dataset_source = "platform" -> Base_load_from_platform(self, w)
               [] self.dataset_source = "url" -> Base_load_from_url(self, w)
               [] self.dataset_source = "local" -> Base_load_from_local(self, w)
               [] OTHER -> Raised(self, <<>>, <<>>, "ValueError: Unknown dataset source")
    IN  IF r.err # None
        THEN [self |-> [r.self EXCEPT !._dataset_error = r.err], io |-> r.io,
              out |-> r.out \o <<"Warning: Failed to load dataset">>, err |-> None,
              loads |-> 1]
        ELSE [self |-> [r.self EXCEPT !._dataset_loaded = TRUE], io |-> r.io,
              out |-> r.out, err |-> None, loads |-> 1]

\* bug: the branch for "none" is missing, so "none" is an unknown source
Mut_load_dataset_none_unknown(self, w) ==
    LET r == CASE self.dataset_source = "platform" -> Base_load_from_platform(self, w)
               [] self.dataset_source = "url" -> Base_load_from_url(self, w)
               [] self.dataset_source = "local" -> Base_load_from_local(self, w)
               [] OTHER -> Raised(self, <<>>, <<>>, "ValueError: Unknown dataset source")
        s1 == IF r.err # None THEN [r.self EXCEPT !._dataset_error = r.err] ELSE r.self
        o1 == IF r.err # None THEN r.out \o <<"Warning: Failed to load dataset">> ELSE r.out
    IN  [self |-> [s1 EXCEPT !._dataset_loaded = TRUE], io |-> r.io, out |-> o1,
         err |-> None, loads |-> 1]

\* try: dispatch on dataset_source / except: store the error / finally: mark loaded
Base_load_dataset(self, w) ==
    LET r == CASE self.dataset_source = "none" ->
                    Returned([self EXCEPT !.dataset_content = NoContent,
                                          !.dataset_metadata = EmptyDict], <<>>, <<>>)
               [] self.dataset_source = "platform" -> Base_load_from_platform(self, w)
               [] self.dataset_source = "url" -> Base_load_from_url(self, w)
               [] self.dataset_source = "local" -> Base_load_from_local(self, w)
               [] OTHER -> Raised(self, <<>>, <<>>, "ValueError: Unknown dataset source")
        s1 == IF r.err # None THEN [r.self EXCEPT !._dataset_error = r.err] ELSE r.self
        o1 == IF r.err # None THEN r.out \o <<"Warning: Failed to load dataset">> ELSE r.out
    IN  [self |-> [s1 EXCEPT !._dataset_loaded = TRUE], io |-> r.io, out |-> o1,
         err |-> None, loads |-> 1]

\* bug: an instance without content loads again on the next access
Mut_ensure_loaded_retry_empty(self, w) ==
    IF ~self._dataset_loaded \/ self.dataset_content = NoContent
    THEN Base_load_dataset(self, w)
    ELSE [self |-> self, io |-> <<>>, out |-> <<>>, err |-> None, loads |-> 0]

\* the lazy step shared by the accessors: if not self._dataset_loaded: self._load_dataset()
Base_ensure_loaded(self, w) ==
    IF ~self._dataset_loaded
    THEN Base_load_dataset(self, w)
    ELSE [self |-> self, io |-> <<>>, out |-> <<>>, err |-> None, loads |-> 0]

\* bug: a stored error makes the accessor load again
Mut_get_dataset_content_retry(self, w) ==
    LET r == IF ~self._dataset_loaded \/ self._dataset_error # None
             THEN Base_load_dataset(self, w)
             ELSE [self |-> self, io |-> <<>>, out |-> <<>>, err |-> None, loads |-> 0]
    IN  IF r.self._dataset_error # None
        THEN [r EXCEPT !.err = r.self._dataset_error]
        ELSE r

\* bug: the stored error is not checked
Mut_get_dataset_content_silent(self, w) == Base_ensure_loaded(self, w)

\* returns dataset_content, or raises the stored error
Base_get_dataset_content(self, w) ==
    LET r == Base_ensure_loaded(self, w)
    IN  IF r.self._dataset_error # None
        THEN [r EXCEPT !.err = r.self._dataset_error]
        ELSE r

\* bug: the metadata accessor raises the stored error as the content accessor does
Mut_get_dataset_metadata_raises(self, w) ==
    LET r == Base_ensure_loaded(self, w)
    IN  IF r.self._dataset_error # None
        THEN [r EXCEPT !.err = r.self._dataset_error]
        ELSE r

\* returns dataset_metadata
Base_get_dataset_metadata(self, w) == Base_ensure_loaded(self, w)

Base_has_dataset(self) == self.dataset_source # "none"

\* 'dataset_metadata': self.get_dataset_metadata() if self.has_dataset() else {}
Base_get_problem_info(self, w) ==
    IF Base_has_dataset(self)
    THEN Base_get_dataset_metadata(self, w)
    ELSE [self |-> self, io |-> <<>>, out |-> <<>>, err |-> None, loads |-> 0]

-----------------------------------------------------------------------------
(* Numbers *)

\* tokens int() accepts, and their values
IntLits == {"0", "1", "2", "3", "4", "5", "100"}
IntVal(t) ==
    CASE t = "0" -> 0 [] t = "1" -> 1 [] t = "2" -> 2 [] t = "3" -> 3 [] t = "4" -> 4
      [] t = "5" -> 5 [] t = "100" -> 100

\* tokens float() accepts: every integer literal is one
FloatLits == IntLits
FloatVal(t) == IntVal(t)

\* largest r in lo..hi with r*r <= n (lo*lo <= n < (hi+1)*(hi+1))
RECURSIVE SqrtBetween(_, _, _)
SqrtBetween(n, lo, hi) ==
    IF lo = hi THEN lo
    ELSE LET mid == (lo + hi + 1) \div 2
         IN  IF mid * mid <= n THEN SqrtBetween(n, mid, hi) ELSE SqrtBetween(n, lo, mid - 1)

\* x ** 0.5 of a non-negative integer x, in thousandths, rounded down
Sqrt1000(x) == SqrtBetween(x * 1000000, 0, (x + 1) * 1000)

-----------------------------------------------------------------------------
(* DatasetAwareProblem *)

DA_load_from_platform(self, w) ==
    IF ~Truthy(self.dataset_id)
    THEN Raised(self, <<>>, <<>>, "ValueError: dataset_id required for platform source")
    ELSE
      LET auth == Truthy(self.auth_token)
          r1 == Request("GET metadata", self.dataset_id, auth)
          r2 == Request("GET download", self.dataset_id, auth)
          s1 == [self EXCEPT !.dataset_metadata = w.metadata]
      IN  IF w.meta = "http_error"
          THEN Raised(self, <<Answered(r1, "http_error")>>, <<>>, "HTTPError")
          ELSE IF w.meta = "bad_body"
          THEN Raised(self, <<Answered(r1, "bad_body")>>, <<>>, "KeyError: dataset")
          ELSE IF w.download = "http_error"
          THEN Raised(s1, <<r1, Answered(r2, "http_error")>>, <<>>, "HTTPError")
          ELSE Returned([s1 EXCEPT !.dataset_content = Text(w.payload)], <<r1, r2>>,
                        <<"Loaded dataset from platform">>)

DA_load_from_url(self, w) ==
    IF ~Truthy(self.dataset_url)
    THEN Raised(self, <<>>, <<>>, "ValueError: dataset_url required for url source")
    ELSE
      LET r1 == Request("GET url", self.dataset_url, FALSE)
      IN  IF w.url = "http_error"
          THEN Raised(self, <<Answered(r1, "http_error")>>, <<>>, "HTTPError")
          ELSE Returned([self EXCEPT !.dataset_content = Text(w.payload)], <<r1>>,
                        <<"Loaded dataset from URL">>)

DA_load_from_local(self, w) ==
    IF ~Truthy(self.instance_file)
    THEN Raised(self, <<>>, <<>>, "ValueError: instance_file required for local source")
    ELSE
      LET r1 == Request("read file", self.instance_file, FALSE)
      IN  IF w.file = "missing"
          THEN Raised(self, <<Answered(r1, "missing")>>, <<>>, "FileNotFoundError")
          ELSE IF w.file = "unreadable"
          THEN Raised(self, <<Answered(r1, "unreadable")>>, <<>>, "OSError")
          ELSE Returned([self EXCEPT !.dataset_content = Text(w.payload)], <<r1>>,
                        <<"Loaded dataset from local file">>)

\* try: dispatch / except: print the warning and reset dataset_content to None
DA_load_dataset(self, w) ==
    LET r == IF self.dataset_source = "platform" /\ Truthy(self.dataset_id)
             THEN DA_load_from_platform(self, w)
             ELSE IF self.dataset_source = "url" /\ Truthy(self.dataset_url)
             THEN DA_load_from_url(self, w)
             ELSE IF Truthy(self.instance_file)
             THEN DA_load_from_local(self, w)
             ELSE Raised(self, <<>>, <<>>, "ValueError: No valid dataset source specified")
    IN  IF r.err # None
        THEN [self |-> [r.self EXCEPT !.dataset_content = NoContent], io |-> r.io,
              out |-> r.out \o <<"Warning: Failed to load dataset">>, err |-> None,
              loads |-> 1]
        ELSE [self |-> r.self, io |-> r.io, out |-> r.out, err |-> None, loads |-> 1]

\* __init__: stores the parameters and loads the dataset at once
DatasetAwareProblem_init(a, w) ==
    DA_load_dataset(
        [dataset_source   |-> a.dataset_source,
         dataset_id       |-> a.dataset_id,
         dataset_url      |-> a.dataset_url,
         instance_file    |-> a.instance_file,
         auth_token       |-> a.auth_token,
         dataset_content  |-> NoContent,
         dataset_metadata |-> EmptyDict], w)

-----------------------------------------------------------------------------
(* DatasetAwareTSPProblem *)

\* Euclidean distance of two coordinate pairs
Distance(p, q) ==
    Sqrt1000((p[1] - q[1]) * (p[1] - q[1]) + (p[2] - q[2]) * (p[2] - q[2]))

\* bug: only the entries above the diagonal are computed
Mut_distance_matrix_upper(cities) ==
    [i \in 1..Len(cities) |->
        [j \in 1..Len(cities) |->
            IF i < j THEN Distance(cities[i], cities[j]) ELSE 0]]

\* n-by-n matrix, 0.0 on the diagonal
_calculate_distance_matrix(cities) ==
    [i \in 1..Len(cities) |->
        [j \in 1..Len(cities) |->
            IF i # j THEN Distance(cities[i], cities[j]) ELSE 0]]

\* bug: the EOF line does not end the loop
RECURSIVE Mut_ParseLines_past_eof(_, _, _)
Mut_ParseLines_past_eof(lines, k, st) ==
    IF k > Len(lines) \/ st.err # None THEN st
    ELSE
      LET line == lines[k]
          isDim == Len(line) >= 1 /\ line[1] = "DIMENSION:"
          dimOk == Len(line) = 2 /\ line[2] \in IntLits
          coord == /\ st.coord_section
                   /\ line # <<>>
                   /\ Len(line) >= 3
      IN  IF isDim /\ ~dimOk
          THEN [st EXCEPT !.err = "ValueError: invalid literal for int()"]
          ELSE IF line = <<"NODE_COORD_SECTION">>
          THEN Mut_ParseLines_past_eof(lines, k + 1, [st EXCEPT !.coord_section = TRUE])
          ELSE IF line = <<"EDGE_WEIGHT_SECTION">> \/ line = <<"EOF">>
          THEN Mut_ParseLines_past_eof(lines, k + 1, st)
          ELSE
            LET s1 == IF isDim THEN [st EXCEPT !.dimension = IntVal(line[2])] ELSE st
            IN  IF ~coord THEN Mut_ParseLines_past_eof(lines, k + 1, s1)
                ELSE IF line[1] \notin IntLits
                THEN [s1 EXCEPT !.err = "ValueError: invalid literal for int()"]
                ELSE IF line[2] \notin FloatLits \/ line[3] \notin FloatLits
                THEN [s1 EXCEPT !.err = "ValueError: could not convert string to float"]
                ELSE Mut_ParseLines_past_eof(lines, k + 1,
                        [s1 EXCEPT !.cities =
                            Append(@, <<FloatVal(line[2]), FloatVal(line[3])>>)])

\* The loop over the lines from line k on.  st holds the loop's locals:
\* dimension, coord_section, the cities appended so far, and the exception
\* that ended the loop (None while none was raised).
RECURSIVE ParseLines(_, _, _)
ParseLines(lines, k, st) ==
    IF k > Len(lines) \/ st.err # None THEN st
    ELSE
      LET line == lines[k]
          isDim == Len(line) >= 1 /\ line[1] = "DIMENSION:"
          dimOk == Len(line) = 2 /\ line[2] \in IntLits
          coord == /\ st.coord_section
                   /\ line # <<>>
                   /\ Len(line) >= 3
      IN  IF isDim /\ ~dimOk
          THEN [st EXCEPT !.err = "ValueError: invalid literal for int()"]
          ELSE IF line = <<"NODE_COORD_SECTION">>
          THEN ParseLines(lines, k + 1, [st EXCEPT !.coord_section = TRUE])
          ELSE IF line = <<"EDGE_WEIGHT_SECTION">>
          THEN ParseLines(lines, k + 1, st)
          ELSE IF line = <<"EOF">>
          THEN st
          ELSE
            LET s1 == IF isDim THEN [st EXCEPT !.dimension = IntVal(line[2])] ELSE st
            IN  IF ~coord THEN ParseLines(lines, k + 1, s1)
                ELSE IF line[1] \notin IntLits
                THEN [s1 EXCEPT !.err = "ValueError: invalid literal for int()"]
                ELSE IF line[2] \notin FloatLits \/ line[3] \notin FloatLits
                THEN [s1 EXCEPT !.err = "ValueError: could not convert string to float"]
                ELSE ParseLines(lines, k + 1,
                        [s1 EXCEPT !.cities =
                            Append(@, <<FloatVal(line[2]), FloatVal(line[3])>>)])

\* str.strip() on the whole text: leading and trailing blank lines go
RECURSIVE DropBlankHead(_)
DropBlankHead(ls) ==
    IF ls # <<>> /\ Head(ls) = <<>> THEN DropBlankHead(Tail(ls)) ELSE ls

RECURSIVE DropBlankTail(_)
DropBlankTail(ls) ==
    IF ls # <<>> /\ ls[Len(ls)] = <<>>
    THEN DropBlankTail(SubSeq(ls, 1, Len(ls) - 1))
    ELSE ls

Strip(ls) == DropBlankTail(DropBlankHead(ls))

\* "".strip().split('\n') is [''], any other text splits into the lines
\* between its first and last non-blank line
SplitLines(c) ==
    LET s == Strip(c.lines)
    IN  IF s = <<>> THEN << <<>> >> ELSE s

\* tests/test_modernized_problems.py: the delimited-row file (first rows)
CsvTest ==
    << <<"x,y,city_name">>,
       <<"0,0,A">>,
       <<"1,0,B">> >>

\* a header row and nothing else
CsvOneLine == << <<"x,y,city_name">> >>

\* a header row followed by a newline and nothing else
CsvTrailingBlank == << <<"x,y,city_name">>, <<>> >>

\* two rows, the first one without a separator
CsvNoComma == << <<"x">>, <<"0,0,A">> >>

\* tests/test_modernized_problems.py: the JSON file (one city), one token
\* per lexical element
JsonCities ==
    << <<"{", "\"name\"", ":", "\"test_json\"", ",", "\"cities\"", ":",
         "[", "{", "\"x\"", ":", "0", ",", "\"y\"", ":", "0", "}", "]", "}">> >>

\* the same text cut off after the first key
JsonTruncated == << <<"{", "\"name\"", ":">> >>

\* a JSON array printed on two lines
JsonTwoLines == << <<"[", "0", ",">>, <<"1", "]">> >>

\* a text that is one number
JsonNumber == << <<"4">> >>

\* a dimension line and an edge weight type line, no TYPE: line
EdgeTypeOnly ==
    << <<"DIMENSION:", "2">>,
       <<"EDGE_WEIGHT_TYPE:", "EUC_2D">> >>

FormatPayloads ==
    {Square4, Short2, HeaderOnly, EdgeTypeOnly, CsvTest, CsvOneLine, CsvTrailingBlank,
     CsvNoComma, JsonCities, JsonTruncated, JsonTwoLines, JsonNumber, EmptyText}

\* format tags the registry may declare
FormatMetadatas == Metadatas \cup { {<<"format", "json">>}, {<<"format", "csv">>} }

FormatWorlds ==
    { AllOk(p, m) : p \in FormatPayloads, m \in FormatMetadatas }
    \cup { [AllOk(Square4, EmptyDict) EXCEPT !.meta = "http_error"] }

\* a registry dataset and a local file
FormatArgSets ==
    { [dataset_source |-> "platform", dataset_id |-> "uuid-123", dataset_url |-> None,
       instance_file |-> None, auth_token |-> None],
      [dataset_source |-> "local", dataset_id |-> None, dataset_url |-> None,
       instance_file |-> "test4.tsp", auth_token |-> None] }

\* expected_format values; 'vrp' is one the method has no rule for
ExpectedFormats == {"tsplib", "json", "csv", "vrp"}

\* tokens in which the substrings 'DIMENSION:', 'TYPE:' and ',' occur
DimensionWords == {"DIMENSION:"}
TypeWords == {"TYPE:", "EDGE_WEIGHT_TYPE:"}
CommaWords == {",", "x,y,city_name", "0,0,A", "1,0,B"}

\* `word in line` for one line, and for a whole text
LineContains(line, W) == \E j \in 1..Len(line) : line[j] \in W
TextContains(lines, W) == \E i \in 1..Len(lines) : LineContains(lines[i], W)

\* the tokens of a text, line after line
RECURSIVE Flatten(_)
Flatten(ls) == IF ls = <<>> THEN <<>> ELSE Head(ls) \o Flatten(Tail(ls))

JsonStrings == {"\"name\"", "\"test_json\"", "\"cities\"", "\"x\"", "\"y\""}
JsonScalars == IntLits \cup JsonStrings \cup {"true", "false", "null"}

\* json.loads: the position after the value that starts at token k, 0 when
\* no value starts there
RECURSIVE JsonValue(_, _)
RECURSIVE JsonElements(_, _)
RECURSIVE JsonMembers(_, _)
JsonValue(t, k) ==
    IF k > Len(t) THEN 0
    ELSE IF t[k] \in JsonScalars THEN k + 1
    ELSE IF t[k] = "["
    THEN IF k + 1 <= Len(t) /\ t[k + 1] = "]" THEN k + 2 ELSE JsonElements(t, k + 1)
    ELSE IF t[k] = "{"
    THEN IF k + 1 <= Len(t) /\ t[k + 1] = "}" THEN k + 2 ELSE JsonMembers(t, k + 1)
    ELSE 0

JsonElements(t, k) ==
    LET n == JsonValue(t, k)
    IN  IF n = 0 \/ n > Len(t) THEN 0
        ELSE IF t[n] = "]" THEN n + 1
        ELSE IF t[n] = "," THEN JsonElements(t, n + 1)
        ELSE 0

JsonMembers(t, k) ==
    IF k + 1 > Len(t) \/ t[k] \notin JsonStrings \/ t[k + 1] # ":" THEN 0
    ELSE LET n == JsonValue(t, k + 2)
         IN  IF n = 0 \/ n > Len(t) THEN 0
             ELSE IF t[n] = "}" THEN n + 1
             ELSE IF t[n] = "," THEN JsonMembers(t, n + 1)
             ELSE 0

\* json.loads(text) returns: the whole text is exactly one value
JsonLoads(lines) ==
    LET t == Flatten(lines) IN JsonValue(t, 1) = Len(t) + 1

\* dict.get(key): the value, None when the key is absent
DictGet(d, key) ==
    IF \E v \in {kv[2] : kv \in d} : <<key, v>> \in d
    THEN (CHOOSE kv \in d : kv[1] = key)[2]
    ELSE None

\* bug: the metadata format tag is not looked at
Mut_validate_no_metadata(self, expected_format) ==
    IF ~ContentTruthy(self.dataset_content) THEN FALSE
    ELSE IF expected_format = "tsplib"
    THEN /\ TextContains(self.dataset_content.lines, DimensionWords)
         /\ TextContains(self.dataset_content.lines, TypeWords)
    ELSE IF expected_format = "json"
    THEN JsonLoads(self.dataset_content.lines)
    ELSE IF expected_format = "csv"
    THEN LET lines == SplitLines(self.dataset_content)
         IN  Len(lines) > 1 /\ LineContains(lines[1], CommaWords)
    ELSE TRUE

validate_dataset_format(self, expected_format) ==
    IF ~ContentTruthy(self.dataset_content) THEN FALSE
    ELSE IF DictGet(self.dataset_metadata, "format") = expected_format THEN TRUE
    ELSE IF expected_format = "tsplib"
    THEN /\ TextContains(self.dataset_content.lines, DimensionWords)
         /\ TextContains(self.dataset_content.lines, TypeWords)
    ELSE IF expected_format = "json"
    THEN JsonLoads(self.dataset_content.lines)
    ELSE IF expected_format = "csv"
    THEN LET lines == SplitLines(self.dataset_content)
         IN  Len(lines) > 1 /\ LineContains(lines[1], CommaWords)
    ELSE TRUE

\* bug: only as many coordinates as the declared dimension are kept for
\* the distance matrix
Mut_parse_tsp_declared_size(self) ==
    IF ~ContentTruthy(self.dataset_content)
    THEN Returned(self, <<>>, <<>>)
    ELSE
      LET st == ParseLines(SplitLines(self.dataset_content), 1,
                           [dimension |-> 0, coord_section |-> FALSE,
                            cities |-> self.cities, err |-> None])
          s1 == [self EXCEPT !.cities = st.cities]
          n == IF st.dimension < Len(st.cities) THEN st.dimension ELSE Len(st.cities)
      IN  IF st.err # None
          THEN Raised(s1, <<>>, <<>>, st.err)
          ELSE IF s1.cities # <<>>
          THEN Returned([s1 EXCEPT !.distance_matrix =
                            _calculate_distance_matrix(SubSeq(s1.cities, 1, n))],
                        <<>>, <<>>)
          ELSE Returned(s1, <<>>, <<>>)

_parse_tsp_data(self) ==
    IF ~ContentTruthy(self.dataset_content)
    THEN Returned(self, <<>>, <<>>)
    ELSE
      LET st == ParseLines(SplitLines(self.dataset_content), 1,
                           [dimension |-> 0, coord_section |-> FALSE,
                            cities |-> self.cities, err |-> None])
          s1 == [self EXCEPT !.cities = st.cities]
      IN  IF st.err # None
          THEN Raised(s1, <<>>, <<>>, st.err)
          ELSE IF s1.cities # <<>>
          THEN Returned([s1 EXCEPT !.distance_matrix = _calculate_distance_matrix(s1.cities)],
                        <<>>, <<>>)
          ELSE Returned(s1, <<>>, <<>>)

\* __init__: the base constructor (which loads), then cities = [],
\* distance_matrix = None (the empty sequence), then the parse
DatasetAwareTSPProblem_init(a, w) ==
    LET b == DatasetAwareProblem_init(a, w)
        s0 == [dataset_source   |-> b.self.dataset_source,
               dataset_id       |-> b.self.dataset_id,
               dataset_url      |-> b.self.dataset_url,
               instance_file    |-> b.self.instance_file,
               auth_token       |-> b.self.auth_token,
               dataset_content  |-> b.self.dataset_content,
               dataset_metadata |-> b.self.dataset_metadata,
               cities           |-> <<>>,
               distance_matrix  |-> <<>>]
        p == _parse_tsp_data(s0)
    IN  [self |-> p.self, io |-> b.io, out |-> b.out, err |-> p.err, loads |-> b.loads]

\* total_distance after the loop has handled positions i..n of the tour
RECURSIVE TourLoop(_, _, _, _)
TourLoop(dm, tour, i, total) ==
    IF i > Len(tour) THEN total
    ELSE LET current_city == tour[i]
             next_city == tour[(i % Len(tour)) + 1]
         IN  TourLoop(dm, tour, i + 1, total + dm[current_city + 1][next_city + 1])

\* bug: the wrap-around edge from the last node to the first is left out
Mut_evaluate_no_wrap(self, tour) ==
    IF self.distance_matrix = <<>> \/ tour = <<>>
    THEN [kind |-> "inf", cost |-> 0]
    ELSE IF \E i \in 1..Len(tour) : tour[i] >= Len(self.distance_matrix)
    THEN [kind |-> "raise", cost |-> 0]
    ELSE [kind |-> "cost",
          cost |-> TourLoop(self.distance_matrix, tour, 1, 0)
                     - self.distance_matrix[tour[Len(tour)] + 1][tour[1] + 1]]

\* bug: only the empty tour is guarded, so indexing a None matrix raises
Mut_evaluate_no_matrix_guard(self, tour) ==
    IF tour = <<>>
    THEN [kind |-> "inf", cost |-> 0]
    ELSE IF self.distance_matrix = <<>>
    THEN [kind |-> "raise", cost |-> 0]
    ELSE IF \E i \in 1..Len(tour) : tour[i] >= Len(self.distance_matrix)
    THEN [kind |-> "raise", cost |-> 0]
    ELSE [kind |-> "cost", cost |-> TourLoop(self.distance_matrix, tour, 1, 0)]

\* [kind: "inf" | "cost" | "raise", cost]
evaluate_solution(self, tour) ==
    IF self.distance_matrix = <<>> \/ tour = <<>>
    THEN [kind |-> "inf", cost |-> 0]
    ELSE IF \E i \in 1..Len(tour) : tour[i] >= Len(self.distance_matrix)
    THEN [kind |-> "raise", cost |-> 0]
    ELSE [kind |-> "cost", cost |-> TourLoop(self.distance_matrix, tour, 1, 0)]

-----------------------------------------------------------------------------
(* DatasetAwareVRPProblem *)

\* tests/test_modernized_problems.py: the 5-node CVRP instance
VrpTest ==
    << <<"NAME:", "test_vrp">>,
       <<"TYPE:", "CVRP">>,
       <<"DIMENSION:", "5">>,
       <<"CAPACITY:", "100">>,
       <<"NODE_COORD_SECTION">>,
       <<"1", "0", "0">>,
       <<"2", "1", "0">>,
       <<"3", "1", "1">>,
       <<"4", "0", "1">>,
       <<"5", "2", "2">>,
       <<"DEMAND_SECTION">>,
       <<"1", "0">>,
       <<"2", "10">>,
       <<"3", "20">>,
       <<"4", "15">>,
       <<"5", "25">>,
       <<"DEPOT_SECTION">>,
       <<"1">>,
       <<"-1">>,
       <<"EOF">> >>

\* CAPACITY 100 between lines the parser does not recognise
VrpPlain ==
    << <<"VEHICLES", "4">>,
       <<"CAPACITY", "100">>,
       <<"SERVICE_TIME", "none">> >>

\* a capacity other than the default one
VrpCapacity3 ==
    << <<"CAPACITY", "3">> >>

\* a comment that mentions the word CAPACITY, then the declaration
VrpComment ==
    << <<"COMMENT:", "CAPACITY", "in", "kg">>,
       <<"CAPACITY", "100">> >>

\* no capacity declaration at all
VrpNoCapacity ==
    << <<"TYPE:", "CVRP">>,
       <<"DIMENSION:", "5">> >>

VRPPayloads == {VrpTest, VrpPlain, VrpCapacity3, VrpComment, VrpNoCapacity, EmptyText}

\* the VRP instance is built from a local file, present or missing
VRPArgSets ==
    [dataset_source : {"local"}, dataset_id : {None}, dataset_url : {None},
     instance_file : {None, "test.vrp"}, auth_token : {None}]

VRPWorlds ==
    { AllOk(p, EmptyDict) : p \in VRPPayloads }
    \cup { [AllOk(VrpTest, EmptyDict) EXCEPT !.file = "missing"] }

\* tokens in which the substring CAPACITY occurs
CapacityWords == {"CAPACITY", "CAPACITY:"}

\* 'CAPACITY' in line
MentionsCapacity(line) == \E i \in 1..Len(line) : line[i] \in CapacityWords

\* The loop over the lines from line k on; st holds vehicle_capacity and the
\* exception that ended the loop (None while none was raised).
RECURSIVE ParseVRPLines(_, _, _)
ParseVRPLines(lines, k, st) ==
    IF k > Len(lines) \/ st.err # None THEN st
    ELSE
      LET line == lines[k]
      IN  IF MentionsCapacity(line)
          THEN IF line[Len(line)] \in IntLits
               THEN ParseVRPLines(lines, k + 1,
                        [st EXCEPT !.vehicle_capacity = IntVal(line[Len(line)])])
               ELSE [st EXCEPT !.err = "ValueError: invalid literal for int()"]
          ELSE ParseVRPLines(lines, k + 1, st)

_parse_vrp_data(self) ==
    IF ~ContentTruthy(self.dataset_content)
    THEN Returned(self, <<>>, <<>>)
    ELSE
      LET st == ParseVRPLines(SplitLines(self.dataset_content), 1,
                              [vehicle_capacity |-> self.vehicle_capacity, err |-> None])
          s1 == [self EXCEPT !.vehicle_capacity = st.vehicle_capacity]
      IN  IF st.err # None THEN Raised(s1, <<>>, <<>>, st.err)
          ELSE Returned(s1, <<>>, <<>>)

\* __init__: the base constructor (which loads), then customers = [],
\* demands = [], vehicle_capacity = 100, depot = (0, 0), then the parse
DatasetAwareVRPProblem_init(a, w) ==
    LET b == DatasetAwareProblem_init(a, w)
        s0 == [dataset_source   |-> b.self.dataset_source,
               dataset_id       |-> b.self.dataset_id,
               dataset_url      |-> b.self.dataset_url,
               instance_file    |-> b.self.instance_file,
               auth_token       |-> b.self.auth_token,
               dataset_content  |-> b.self.dataset_content,
               dataset_metadata |-> b.self.dataset_metadata,
               customers        |-> <<>>,
               demands          |-> <<>>,
               vehicle_capacity |-> 100,
               depot            |-> <<0, 0>>]
        p == _parse_vrp_data(s0)
    IN  [self |-> p.self, io |-> b.io, out |-> b.out, err |-> p.err, loads |-> b.loads]

\* The loop over one route from position k on: the position reached, the
\* route_cost so far, and the exception raised (None while none was).
\* customers[c] with c < 0 counts from the end of the list, and raises
\* IndexError when c < -len(customers).
RECURSIVE RouteLoop(_, _, _, _, _)
RouteLoop(customers, route, k, current_pos, route_cost) ==
    IF k > Len(route)
    THEN [pos |-> current_pos, cost |-> route_cost, err |-> None]
    ELSE
      LET customer == route[k]
      IN  IF customer < Len(customers)
          THEN IF customer < 0 - Len(customers)
               THEN [pos |-> current_pos, cost |-> route_cost, err |-> "IndexError"]
               ELSE LET at == IF customer >= 0 THEN customer ELSE Len(customers) + customer
                        customer_pos == customers[at + 1]
                    IN  RouteLoop(customers, route, k + 1, customer_pos,
                                  route_cost + Distance(current_pos, customer_pos))
          ELSE RouteLoop(customers, route, k + 1, current_pos, route_cost)

\* bug: the leg from the last customer back to the depot is left out
RECURSIVE Mut_RoutesLoop_no_return(_, _, _, _)
Mut_RoutesLoop_no_return(self, routes, k, total_cost) ==
    IF k > Len(routes) THEN [kind |-> "cost", cost |-> total_cost]
    ELSE
      LET r == RouteLoop(self.customers, routes[k], 1, self.depot, 0)
      IN  IF r.err # None THEN [kind |-> "raise", cost |-> 0]
          ELSE Mut_RoutesLoop_no_return(self, routes, k + 1, total_cost + r.cost)

\* The loop over the routes from route k on, with total_cost so far
RECURSIVE RoutesLoop(_, _, _, _)
RoutesLoop(self, routes, k, total_cost) ==
    IF k > Len(routes) THEN [kind |-> "cost", cost |-> total_cost]
    ELSE
      LET r == RouteLoop(self.customers, routes[k], 1, self.depot, 0)
      IN  IF r.err # None THEN [kind |-> "raise", cost |-> 0]
          ELSE RoutesLoop(self, routes, k + 1,
                          total_cost + (r.cost + Distance(r.pos, self.depot)))

\* bug: the guard for an empty route list is missing, so its cost is 0.0
Mut_VRP_evaluate_no_guard(self, routes) == RoutesLoop(self, routes, 1, 0)

\* [kind: "inf" | "cost" | "raise", cost]
VRP_evaluate_solution(self, routes) ==
    IF routes = <<>>
    THEN [kind |-> "inf", cost |-> 0]
    ELSE RoutesLoop(self, routes, 1, 0)

-----------------------------------------------------------------------------
(* The instance and the calls made on it *)

\* longest candidate tour tried, besides the test's tour [0, 1, 2, 3]
MaxTourLen == 2

\* node indices a candidate tour may use; node 3 is visited by the test's tour
TourNodes == 0..2

Tours ==
    {<<0, 1, 2, 3>>} \cup UNION {[1..n -> TourNodes] : n \in 0..MaxTourLen}

\* an instance that has not been constructed
Absent == [absent |-> TRUE]

\* longest route tried
MaxRouteLen == 2

\* customer indices a route may use: one below and one above the range of
\* two known customers
RouteNodes == -1..2

OneRoute == UNION {[1..n -> RouteNodes] : n \in 0..MaxRouteLen}

\* no route, one route, or two routes out of a few fixed ones
RouteLists ==
    {<<>>} \cup {<<r>> : r \in OneRoute}
           \cup {<<r, s>> : r \in {<<>>, <<0, 1>>, <<-1>>}, s \in {<<>>, <<1, 0>>}}

\* customer lists a caller assigns to the instance
CustomerLists == { <<>>, << <<3, 4>> >>, << <<3, 4>>, <<3, 0>> >> }

NoArgs ==
    [dataset_source |-> None, dataset_id |-> None, dataset_url |-> None,
     instance_file |-> None, auth_token |-> None]

\* what a call gave back: it returned or raised; the value by type; the
\* number of requests and reads it issued
Outcome(op) ==
    [op |-> op, kind |-> "return", error |-> None, content |-> NoContent,
     metadata |-> EmptyDict, flag |-> FALSE, inf |-> FALSE, cost |-> 0,
     tour |-> <<>>, routes |-> <<>>, expected_format |-> None, fetched |-> 0]

OutcomeOf(op, r) ==
    [Outcome(op) EXCEPT !.kind = IF r.err = None THEN "return" ELSE "raise",
                        !.error = r.err,
                        !.fetched = Len(r.io)]

\* no concurrent callers, no server
NoContexts == <<>>
NoServer == [absent |-> TRUE]

Init ==
    /\ ctx = NoContexts
    /\ srv = NoServer
    /\ cls = None
    /\ pc = "new"
    /\ args = NoArgs
    /\ bp = Absent
    /\ da = Absent
    /\ io_log = <<>>
    /\ stdout = <<>>
    /\ n_loads = 0
    /\ ret = Outcome("none")

\* BaseProblem(**a)
NewBaseProblem ==
    /\ pc = "new"
    /\ \E a \in ArgSets :
        /\ args' = a
        /\ bp' = BaseProblem_init(a)
    /\ cls' = "BaseProblem"
    /\ pc' = "ready"
    /\ ret' = Outcome("__init__")
    /\ UNCHANGED <<da, io_log, stdout, n_loads>>
    /\ UNCHANGED <<ctx, srv>>

\* BaseProblem.from_platform(id, tok, **kw); args records the call
FromPlatform ==
    /\ pc = "new"
    /\ \E id \in IdArgs, tok \in PlatformTokens, kw \in PlatformKwargs :
        /\ args' = [dataset_source |-> "platform", dataset_id |-> id,
                    dataset_url |-> kw.dataset_url, instance_file |-> kw.instance_file,
                    auth_token |-> tok]
        /\ bp' = from_platform(id, tok, kw)
    /\ cls' = "BaseProblem"
    /\ pc' = "ready"
    /\ ret' = Outcome("from_platform")
    /\ UNCHANGED <<da, io_log, stdout, n_loads>>
    /\ UNCHANGED <<ctx, srv>>

FromUrl ==
    /\ pc = "new"
    /\ \E u \in UrlArgs, kw \in UrlKwargs :
        /\ args' = [dataset_source |-> "url", dataset_id |-> kw.dataset_id,
                    dataset_url |-> u, instance_file |-> kw.instance_file,
                    auth_token |-> kw.auth_token]
        /\ bp' = from_url(u, kw)
    /\ cls' = "BaseProblem"
    /\ pc' = "ready"
    /\ ret' = Outcome("from_url")
    /\ UNCHANGED <<da, io_log, stdout, n_loads>>
    /\ UNCHANGED <<ctx, srv>>

FromFile ==
    /\ pc = "new"
    /\ \E f \in FileArgs, kw \in FileKwargs :
        /\ args' = [dataset_source |-> "local", dataset_id |-> kw.dataset_id,
                    dataset_url |-> kw.dataset_url, instance_file |-> f,
                    auth_token |-> kw.auth_token]
        /\ bp' = from_file(f, kw)
    /\ cls' = "BaseProblem"
    /\ pc' = "ready"
    /\ ret' = Outcome("from_file")
    /\ UNCHANGED <<da, io_log, stdout, n_loads>>
    /\ UNCHANGED <<ctx, srv>>

\* the effects of a BaseProblem method on everything but ret
BaseEffects(r) ==
    /\ bp' = r.self
    /\ io_log' = io_log \o r.io
    /\ stdout' = stdout \o r.out
    /\ n_loads' = n_loads + r.loads
    /\ UNCHANGED <<cls, pc, args, da>>

GetDatasetContent ==
    /\ cls = "BaseProblem" /\ pc = "ready"
    /\ \E w \in Worlds :
        LET r == Base_get_dataset_content(bp, w)
        IN  /\ BaseEffects(r)
            /\ ret' = [OutcomeOf("get_dataset_content", r) EXCEPT
                          !.content = IF r.err = None THEN r.self.dataset_content
                                      ELSE NoContent]
    /\ UNCHANGED <<ctx, srv>>

GetDatasetMetadata ==
    /\ cls = "BaseProblem" /\ pc = "ready"
    /\ \E w \in Worlds :
        LET r == Base_get_dataset_metadata(bp, w)
        IN  /\ BaseEffects(r)
            /\ ret' = [OutcomeOf("get_dataset_metadata", r) EXCEPT
                          !.metadata = IF r.err = None THEN r.self.dataset_metadata
                                       ELSE EmptyDict]
    /\ UNCHANGED <<ctx, srv>>

HasDataset ==
    /\ cls = "BaseProblem" /\ pc = "ready"
    /\ ret' = [Outcome("has_dataset") EXCEPT !.flag = Base_has_dataset(bp)]
    /\ UNCHANGED <<cls, pc, args, bp, da, io_log, stdout, n_loads>>
    /\ UNCHANGED <<ctx, srv>>

GetProblemInfo ==
    /\ cls = "BaseProblem" /\ pc = "ready"
    /\ \E w \in Worlds :
        LET r == Base_get_problem_info(bp, w)
        IN  /\ BaseEffects(r)
            /\ ret' = [OutcomeOf("get_problem_info", r) EXCEPT
                          !.flag = Base_has_dataset(bp),
                          !.metadata = IF r.err = None /\ Base_has_dataset(bp)
                                       THEN r.self.dataset_metadata ELSE EmptyDict]
    /\ UNCHANGED <<ctx, srv>>

\* DatasetAwareTSPProblem(**a); an exception of the parser leaves no instance
NewTSPProblem ==
    /\ pc = "new"
    /\ \E a \in ArgSets, w \in Worlds :
        LET r == DatasetAwareTSPProblem_init(a, w)
        IN  /\ args' = a
            /\ da' = r.self
            /\ io_log' = io_log \o r.io
            /\ stdout' = stdout \o r.out
            /\ n_loads' = n_loads + r.loads
            /\ pc' = IF r.err = None THEN "ready" ELSE "dead"
            /\ ret' = OutcomeOf("__init__", r)
    /\ cls' = "DatasetAwareTSPProblem"
    /\ UNCHANGED bp
    /\ UNCHANGED <<ctx, srv>>

\* DatasetAwareProblem.get_dataset_content: return self.dataset_content
TSPGetDatasetContent ==
    /\ cls = "DatasetAwareTSPProblem" /\ pc = "ready"
    /\ ret' = [Outcome("get_dataset_content") EXCEPT !.content = da.dataset_content]
    /\ UNCHANGED <<cls, pc, args, bp, da, io_log, stdout, n_loads>>
    /\ UNCHANGED <<ctx, srv>>

\* DatasetAwareProblem.get_dataset_metadata: return self.dataset_metadata
TSPGetDatasetMetadata ==
    /\ cls = "DatasetAwareTSPProblem" /\ pc = "ready"
    /\ ret' = [Outcome("get_dataset_metadata") EXCEPT !.metadata = da.dataset_metadata]
    /\ UNCHANGED <<cls, pc, args, bp, da, io_log, stdout, n_loads>>
    /\ UNCHANGED <<ctx, srv>>

EvaluateSolution ==
    /\ cls = "DatasetAwareTSPProblem" /\ pc = "ready"
    /\ \E tour \in Tours :
        LET v == evaluate_solution(da, tour)
        IN  ret' = [Outcome("evaluate_solution") EXCEPT
                       !.kind = IF v.kind = "raise" THEN "raise" ELSE "return",
                       !.error = IF v.kind = "raise" THEN "IndexError" ELSE None,
                       !.inf = (v.kind = "inf"),
                       !.cost = v.cost,
                       !.tour = tour]
    /\ UNCHANGED <<cls, pc, args, bp, da, io_log, stdout, n_loads>>
    /\ UNCHANGED <<ctx, srv>>

\* DatasetAwareVRPProblem(**a); an exception of the parser leaves no instance
NewVRPProblem ==
    /\ pc = "new"
    /\ \E a \in VRPArgSets, w \in VRPWorlds :
        LET r == DatasetAwareVRPProblem_init(a, w)
        IN  /\ args' = a
            /\ da' = r.self
            /\ io_log' = io_log \o r.io
            /\ stdout' = stdout \o r.out
            /\ n_loads' = n_loads + r.loads
            /\ pc' = IF r.err = None THEN "ready" ELSE "dead"
            /\ ret' = OutcomeOf("__init__", r)
    /\ cls' = "DatasetAwareVRPProblem"
    /\ UNCHANGED bp
    /\ UNCHANGED <<ctx, srv>>

\* problem.customers = cs: the caller fills the public attribute
AssignCustomers ==
    /\ cls = "DatasetAwareVRPProblem" /\ pc = "ready"
    /\ \E cs \in CustomerLists : da' = [da EXCEPT !.customers = cs]
    /\ ret' = Outcome("assign customers")
    /\ UNCHANGED <<cls, pc, args, bp, io_log, stdout, n_loads>>
    /\ UNCHANGED <<ctx, srv>>

VRPEvaluateSolution ==
    /\ cls = "DatasetAwareVRPProblem" /\ pc = "ready"
    /\ \E routes \in RouteLists :
        LET v == VRP_evaluate_solution(da, routes)
        IN  ret' = [Outcome("evaluate_solution") EXCEPT
                       !.kind = IF v.kind = "raise" THEN "raise" ELSE "return",
                       !.error = IF v.kind = "raise" THEN "IndexError" ELSE None,
                       !.inf = (v.kind = "inf"),
                       !.cost = v.cost,
                       !.routes = routes]
    /\ UNCHANGED <<cls, pc, args, bp, da, io_log, stdout, n_loads>>
    /\ UNCHANGED <<ctx, srv>>

\* problem.validate_dataset_format(f) on either dataset-aware problem
ValidateDatasetFormat ==
    /\ cls \in {"DatasetAwareTSPProblem", "DatasetAwareVRPProblem"} /\ pc = "ready"
    /\ \E f \in ExpectedFormats :
        ret' = [Outcome("validate_dataset_format") EXCEPT
                   !.flag = validate_dataset_format(da, f),
                   !.expected_format = f]
    /\ UNCHANGED <<cls, pc, args, bp, da, io_log, stdout, n_loads>>
    /\ UNCHANGED <<ctx, srv>>

\* DatasetAwareTSPProblem(**a) on payloads of every format
NewFormatProblem ==
    /\ pc = "new"
    /\ \E a \in FormatArgSets, w \in FormatWorlds :
        LET r == DatasetAwareTSPProblem_init(a, w)
        IN  /\ args' = a
            /\ da' = r.self
            /\ io_log' = io_log \o r.io
            /\ stdout' = stdout \o r.out
            /\ n_loads' = n_loads + r.loads
            /\ pc' = IF r.err = None THEN "ready" ELSE "dead"
            /\ ret' = OutcomeOf("__init__", r)
    /\ cls' = "DatasetAwareTSPProblem"
    /\ UNCHANGED bp
    /\ UNCHANGED <<ctx, srv>>

Next ==
    \/ NewBaseProblem
    \/ GetDatasetContent
    \/ GetDatasetMetadata
    \/ HasDataset
    \/ GetProblemInfo
    \/ NewTSPProblem
    \/ TSPGetDatasetContent
    \/ TSPGetDatasetMetadata
    \/ EvaluateSolution
    \/ NewVRPProblem
    \/ AssignCustomers
    \/ VRPEvaluateSolution
    \/ ValidateDatasetFormat
    \/ FromPlatform
    \/ FromUrl
    \/ FromFile

Spec == Init /\ [][Next]_vars

\* format validation of payloads of every format
FormatNext ==
    \/ NewFormatProblem
    \/ ValidateDatasetFormat

FormatSpec == Init /\ [][FormatNext]_vars

-----------------------------------------------------------------------------
(* Two execution contexts calling the accessors of one BaseProblem *)

Contexts == {"c1", "c2"}

\* the accessors that load lazily
LazyAccessors == {"get_dataset_content", "get_dataset_metadata"}

\* one instance per source kind, identifiers present
RaceArgSets ==
    { [dataset_source |-> "platform", dataset_id |-> "uuid-123", dataset_url |-> None,
       instance_file |-> None, auth_token |-> None],
      [dataset_source |-> "local", dataset_id |-> None, dataset_url |-> None,
       instance_file |-> "test4.tsp", auth_token |-> None],
      [dataset_source |-> "none", dataset_id |-> None, dataset_url |-> None,
       instance_file |-> None, auth_token |-> None] }

\* what the outside world answers to one load of one context
RaceWorlds ==
    { AllOk(Square4, m) : m \in Metadatas }
    \cup { [AllOk(Square4, m) EXCEPT !.download = "http_error"] : m \in Metadatas }
    \cup { [AllOk(Square4, EmptyDict) EXCEPT !.meta = "http_error"],
           [AllOk(Square4, EmptyDict) EXCEPT !.file = "missing"] }

\* a context that has not called yet: its position, the accessor it runs,
\* the instance as its load found it and as its load leaves it, what the
\* load prints, and the outcome of its call
IdleContext ==
    [pc |-> "idle", op |-> None, before |-> Absent, after |-> Absent, out |-> <<>>,
     result |-> Outcome("none")]

\* bug: the flag is set first and the loaded data written afterwards
Mut_order_mark_first == <<"fetch", "mark", "write">>

\* _load_dataset: the body of try (the fetch), its assignments (content and
\* metadata, or the error in except), then finally: _dataset_loaded = True
LoadStepOrder == <<"fetch", "write", "mark">>

\* the position after step s of the load; "return" after the last one
AfterStep(s) ==
    LET i == CHOOSE k \in 1..Len(LoadStepOrder) : LoadStepOrder[k] = s
    IN  IF i = Len(LoadStepOrder) THEN "return" ELSE LoadStepOrder[i + 1]

\* bug: the load looks at the flag again and does nothing when it is set
Mut_load_recheck(self, w) ==
    IF self._dataset_loaded
    THEN [self |-> self, io |-> <<>>, out |-> <<>>, err |-> None, loads |-> 0]
    ELSE Base_load_dataset(self, w)

\* self._load_dataset() as called by a context that found the flag False
ContextLoad(self, w) == Base_load_dataset(self, w)

\* the attributes a load assigned (those it left different from what it
\* found) written onto the instance as it is now
WriteLoaded(now, before, after) ==
    [now EXCEPT
        !.dataset_content  = IF after.dataset_content # before.dataset_content
                             THEN after.dataset_content ELSE @,
        !.dataset_metadata = IF after.dataset_metadata # before.dataset_metadata
                             THEN after.dataset_metadata ELSE @,
        !._dataset_error   = IF after._dataset_error # before._dataset_error
                             THEN after._dataset_error ELSE @]

\* BaseProblem(**a), shared by the contexts
NewSharedProblem ==
    /\ pc = "new"
    /\ \E a \in RaceArgSets :
        /\ args' = a
        /\ bp' = BaseProblem_init(a)
    /\ cls' = "BaseProblem"
    /\ pc' = "shared"
    /\ ret' = Outcome("__init__")
    /\ ctx' = [c \in Contexts |-> IdleContext]
    /\ UNCHANGED <<da, io_log, stdout, n_loads, srv>>

\* context c enters an accessor
CallAccessor(c) ==
    /\ pc = "shared" /\ ctx[c].pc = "idle"
    /\ \E op \in LazyAccessors :
        ctx' = [ctx EXCEPT ![c].pc = "check", ![c].op = op]
    /\ UNCHANGED <<cls, pc, args, bp, da, io_log, stdout, n_loads, ret, srv>>

\* if not self._dataset_loaded:
CheckLoaded(c) ==
    /\ pc = "shared" /\ ctx[c].pc = "check"
    /\ ctx' = [ctx EXCEPT ![c].pc = IF ~bp._dataset_loaded
                                    THEN LoadStepOrder[1] ELSE "return"]
    /\ UNCHANGED <<cls, pc, args, bp, da, io_log, stdout, n_loads, ret, srv>>

\* the requests or the file read of c's load; what they gave is held by c
Fetch(c) ==
    /\ pc = "shared" /\ ctx[c].pc = "fetch"
    /\ \E w \in RaceWorlds :
        LET r == ContextLoad(bp, w)
        IN  /\ ctx' = [ctx EXCEPT ![c].pc = AfterStep("fetch"),
                                  ![c].before = bp,
                                  ![c].after = r.self,
                                  ![c].out = r.out]
            /\ io_log' = io_log \o r.io
            /\ n_loads' = n_loads + r.loads
    /\ UNCHANGED <<cls, pc, args, bp, da, stdout, ret, srv>>

\* the assignments of c's load to the shared instance
WriteData(c) ==
    /\ pc = "shared" /\ ctx[c].pc = "write"
    /\ bp' = WriteLoaded(bp, ctx[c].before, ctx[c].after)
    /\ stdout' = stdout \o ctx[c].out
    /\ ctx' = [ctx EXCEPT ![c].pc = AfterStep("write")]
    /\ UNCHANGED <<cls, pc, args, da, io_log, n_loads, ret, srv>>

\* finally: self._dataset_loaded = True
MarkLoaded(c) ==
    /\ pc = "shared" /\ ctx[c].pc = "mark"
    /\ bp' = [bp EXCEPT !._dataset_loaded = ctx[c].after._dataset_loaded]
    /\ ctx' = [ctx EXCEPT ![c].pc = AfterStep("mark")]
    /\ UNCHANGED <<cls, pc, args, da, io_log, stdout, n_loads, ret, srv>>

\* the rest of the accessor: raise the stored error (content accessor only)
\* or return the attribute as it is now
ReturnFromAccessor(c) ==
    /\ pc = "shared" /\ ctx[c].pc = "return"
    /\ ctx' = [ctx EXCEPT
                 ![c].pc = "done",
                 ![c].result =
                     IF ctx[c].op = "get_dataset_content" /\ bp._dataset_error # None
                     THEN [Outcome(ctx[c].op) EXCEPT !.kind = "raise",
                                                     !.error = bp._dataset_error]
                     ELSE [Outcome(ctx[c].op) EXCEPT
                              !.content = bp.dataset_content,
                              !.metadata = bp.dataset_metadata]]
    /\ UNCHANGED <<cls, pc, args, bp, da, io_log, stdout, n_loads, ret, srv>>

RaceNext ==
    \/ NewSharedProblem
    \/ \E c \in Contexts : CallAccessor(c)
    \/ \E c \in Contexts : CheckLoaded(c)
    \/ \E c \in Contexts : Fetch(c)
    \/ \E c \in Contexts : WriteData(c)
    \/ \E c \in Contexts : MarkLoaded(c)
    \/ \E c \in Contexts : ReturnFromAccessor(c)

RaceSpec == Init /\ [][RaceNext]_vars

-----------------------------------------------------------------------------
(* The coordinate parser on regular and irregular payloads *)

\* rows outside the coordinate section, rows of two and of four tokens, a
\* blank line and another section marker inside it; declares 1 node, lists 2
Irregular ==
    << <<"1", "0", "0">>,
       <<"DIMENSION:", "1">>,
       <<"NODE_COORD_SECTION">>,
       <<"1", "3", "4">>,
       <<>>,
       <<"2", "0">>,
       <<"EDGE_WEIGHT_SECTION">>,
       <<"3", "3", "0", "5">>,
       <<"EOF">>,
       <<"4", "1", "1">> >>

\* Short2 with the number of nodes it lists as its declared dimension
Short2Exact ==
    << <<"DIMENSION:", "2">>,
       <<"NODE_COORD_SECTION">>,
       <<"1", "0", "0">>,
       <<"2", "3", "4">> >>

\* the end marker before the coordinate section
EofFirst ==
    << <<"EOF">>,
       <<"NODE_COORD_SECTION">>,
       <<"1", "0", "0">> >>

\* a coordinate that is not a number
BadCoordinate ==
    << <<"DIMENSION:", "2">>,
       <<"NODE_COORD_SECTION">>,
       <<"1", "0", "0">>,
       <<"2", "x", "1">> >>

\* a node id that is not a number
BadNodeId ==
    << <<"NODE_COORD_SECTION">>,
       <<"n1", "0", "0">> >>

ParsePayloads ==
    {Square4, Short2, Short2Exact, HeaderOnly, Irregular, EofFirst, BadDimension,
     BadCoordinate, BadNodeId, EmptyText}

ParseWorlds == { AllOk(p, m) : p \in ParsePayloads, m \in Metadatas }

\* DatasetAwareTSPProblem(**a) on the payloads above
NewParseProblem ==
    /\ pc = "new"
    /\ \E a \in FormatArgSets, w \in ParseWorlds :
        LET r == DatasetAwareTSPProblem_init(a, w)
        IN  /\ args' = a
            /\ da' = r.self
            /\ io_log' = io_log \o r.io
            /\ stdout' = stdout \o r.out
            /\ n_loads' = n_loads + r.loads
            /\ pc' = IF r.err = None THEN "ready" ELSE "dead"
            /\ ret' = OutcomeOf("__init__", r)
    /\ cls' = "DatasetAwareTSPProblem"
    /\ UNCHANGED <<bp, ctx, srv>>

ParseNext ==
    \/ NewParseProblem
    \/ EvaluateSolution

ParseSpec == Init /\ [][ParseNext]_vars

-----------------------------------------------------------------------------
(* Two execution contexts evaluating on one ready instance *)

\* tours and route lists the contexts evaluate
EvalTours == { <<>>, <<0>>, <<0, 1>>, <<1, 0>>, <<0, 1, 2>>, <<0, 1, 2, 3>> }

EvalRouteLists ==
    { <<>>, << <<0, 1>> >>, << <<1>>, <<0>> >>, << <<0, 1>>, <<1, 0>> >>,
      << <<-1>>, <<2>> >>, << <<0>>, <<-1>> >> }

\* the locals of one evaluate_solution call: its position, its argument, the
\* loop index (from 1), the running total, and what it gave back
IdleEvaluator ==
    [pc |-> "idle", input |-> <<>>, i |-> 0, total |-> 0,
     result |-> [kind |-> "none", cost |-> 0]]

Finished(loc, kind, cost) ==
    [loc EXCEPT !.pc = "done", !.total = cost, !.result = [kind |-> kind, cost |-> cost]]

\* the tour evaluator up to its loop: the guard, total_distance = 0.0
TourEnter(self, tour) ==
    LET loc == [IdleEvaluator EXCEPT !.input = tour]
    IN  IF self.distance_matrix = <<>> \/ tour = <<>>
        THEN Finished(loc, "inf", 0)
        ELSE [loc EXCEPT !.pc = "loop", !.i = 1]

\* one iteration of the tour loop, and the return after the last one
TourStep(self, loc) ==
    LET tour == loc.input
        n == Len(tour)
        dm == self.distance_matrix
        current_city == tour[loc.i]
        next_city == tour[(loc.i % n) + 1]
    IN  IF current_city >= Len(dm) \/ next_city >= Len(dm)
        THEN [self |-> self, loc |-> Finished(loc, "raise", 0)]
        ELSE LET total_distance == loc.total + dm[current_city + 1][next_city + 1]
             IN  [self |-> self,
                  loc |-> IF loc.i = n THEN Finished(loc, "cost", total_distance)
                          ELSE [loc EXCEPT !.i = @ + 1, !.total = total_distance]]

\* the route evaluator up to its loop: the guard, total_cost = 0.0
RoutesEnter(self, routes) ==
    LET loc == [IdleEvaluator EXCEPT !.input = routes]
    IN  IF routes = <<>> THEN Finished(loc, "inf", 0)
        ELSE [loc EXCEPT !.pc = "loop", !.i = 1]

\* bug: the current position is kept on the instance, in self.depot, and
\* not in a local
Mut_RoutesStep_shared_position(self, loc) ==
    LET routes == loc.input
        r == RouteLoop(self.customers, routes[loc.i], 1, self.depot, 0)
    IN  IF r.err # None
        THEN [self |-> self, loc |-> Finished(loc, "raise", 0)]
        ELSE LET moved == [self EXCEPT !.depot = r.pos]
                 total_cost == loc.total + (r.cost + Distance(r.pos, moved.depot))
             IN  [self |-> moved,
                  loc |-> IF loc.i = Len(routes) THEN Finished(loc, "cost", total_cost)
                          ELSE [loc EXCEPT !.i = @ + 1, !.total = total_cost]]

\* one iteration of the loop over the routes (the whole of one route and
\* its leg back to the depot), and the return after the last one
RoutesStep(self, loc) ==
    LET routes == loc.input
        r == RouteLoop(self.customers, routes[loc.i], 1, self.depot, 0)
    IN  IF r.err # None
        THEN [self |-> self, loc |-> Finished(loc, "raise", 0)]
        ELSE LET total_cost == loc.total + (r.cost + Distance(r.pos, self.depot))
             IN  [self |-> self,
                  loc |-> IF loc.i = Len(routes) THEN Finished(loc, "cost", total_cost)
                          ELSE [loc EXCEPT !.i = @ + 1, !.total = total_cost]]

\* the built instance is handed to the contexts
StartEvaluators ==
    /\ pc = "ready" /\ cls \in {"DatasetAwareTSPProblem", "DatasetAwareVRPProblem"}
    /\ pc' = "evaluating"
    /\ ctx' = [c \in Contexts |-> IdleEvaluator]
    /\ UNCHANGED <<cls, args, bp, da, io_log, stdout, n_loads, ret, srv>>

\* context c calls problem.evaluate_solution(tour)
BeginTour(c) ==
    /\ pc = "evaluating" /\ cls = "DatasetAwareTSPProblem" /\ ctx[c].pc = "idle"
    /\ \E tour \in EvalTours : ctx' = [ctx EXCEPT ![c] = TourEnter(da, tour)]
    /\ UNCHANGED <<cls, pc, args, bp, da, io_log, stdout, n_loads, ret, srv>>

\* context c runs one iteration of its tour loop
TourIteration(c) ==
    /\ pc = "evaluating" /\ cls = "DatasetAwareTSPProblem" /\ ctx[c].pc = "loop"
    /\ LET s == TourStep(da, ctx[c])
       IN  /\ da' = s.self
           /\ ctx' = [ctx EXCEPT ![c] = s.loc]
    /\ UNCHANGED <<cls, pc, args, bp, io_log, stdout, n_loads, ret, srv>>

\* context c calls problem.evaluate_solution(routes)
BeginRoutes(c) ==
    /\ pc = "evaluating" /\ cls = "DatasetAwareVRPProblem" /\ ctx[c].pc = "idle"
    /\ \E routes \in EvalRouteLists : ctx' = [ctx EXCEPT ![c] = RoutesEnter(da, routes)]
    /\ UNCHANGED <<cls, pc, args, bp, da, io_log, stdout, n_loads, ret, srv>>

\* context c runs one iteration of its loop over the routes
RoutesIteration(c) ==
    /\ pc = "evaluating" /\ cls = "DatasetAwareVRPProblem" /\ ctx[c].pc = "loop"
    /\ LET s == RoutesStep(da, ctx[c])
       IN  /\ da' = s.self
           /\ ctx' = [ctx EXCEPT ![c] = s.loc]
    /\ UNCHANGED <<cls, pc, args, bp, io_log, stdout, n_loads, ret, srv>>

EvalNext ==
    \/ NewParseProblem
    \/ NewVRPProblem
    \/ AssignCustomers
    \/ StartEvaluators
    \/ \E c \in Contexts : BeginTour(c)
    \/ \E c \in Contexts : TourIteration(c)
    \/ \E c \in Contexts : BeginRoutes(c)
    \/ \E c \in Contexts : RoutesIteration(c)

EvalSpec == Init /\ [][EvalNext]_vars

-----------------------------------------------------------------------------
(* The /execute endpoint of the playground API server *)

\* repositories a request may name, all of the user 'default': a problem,
\* an optimizer, and one without config.json
Repos == {"tsp", "ga", "bare"}

\* the 'type' in the config.json of each repository, None where there is no file
RepoConfig == [r \in Repos |-> CASE r = "tsp" -> "problem"
                                 [] r = "ga" -> "optimizer"
                                 [] OTHER -> None]

\* POST bodies: problem_name and optimizer_name, either of which may be missing
ExecRequests == [problem_name : Repos \cup {None}, optimizer_name : Repos \cup {None}]

\* what the outside answers during one request: whether each git clone and
\* each pip install succeeds, and whether the optimization run raises
ExecWorlds ==
    [problem_clone : BOOLEAN, optimizer_clone : BOOLEAN,
     install : BOOLEAN, run : {"ok", "raise"}]

\* the answer of a request that has not run an optimization
Response(status, error_type) ==
    [status |-> status, error_type |-> error_type, ran |-> FALSE,
     problem_dir |-> None, optimizer_dir |-> None, warnings |-> {}]

\* a started server: the directories under REPOS_DIR, those whose
\* requirements installation was attempted since they were cloned, and the
\* answer to the last request
EmptyServer ==
    [absent |-> FALSE, dirs |-> {}, installed |-> {}, last |-> Response(0, None)]

\* clone_repository: on success the directory holds a fresh clone
clone_repository(s, repo, ok) ==
    IF ok THEN [s EXCEPT !.dirs = @ \cup {repo}, !.installed = @ \ {repo}]
    ELSE [s EXCEPT !.dirs = @ \ {repo}, !.installed = @ \ {repo}]

\* install_repository_requirements: pip runs (or there is nothing to install)
install_repository_requirements(s, repo) ==
    [s EXCEPT !.installed = @ \cup {repo}]

\* load_config: the type in config.json, None without the file
load_config(s, repo) == IF repo \in s.dirs THEN RepoConfig[repo] ELSE None

\* execute_optimization: the server after the request, with its answer
execute_optimization(s, req, w) ==
    IF req.problem_name = None \/ req.optimizer_name = None
    THEN [s EXCEPT !.last = Response(400, "invalid_request")]
    ELSE
      LET problem_dir == req.problem_name
          optimizer_dir == req.optimizer_name
          clone_problem == problem_dir \notin s.dirs
          s1 == IF clone_problem
                THEN clone_repository(s, problem_dir, w.problem_clone) ELSE s
          problem_cloned == clone_problem /\ w.problem_clone
          clone_optimizer == optimizer_dir \notin s1.dirs
          s2 == IF clone_optimizer
                THEN clone_repository(s1, optimizer_dir, w.optimizer_clone) ELSE s1
          optimizer_cloned == clone_optimizer /\ w.optimizer_clone
          s3 == IF problem_cloned
                THEN install_repository_requirements(s2, problem_dir) ELSE s2
          s4 == IF optimizer_cloned
                THEN install_repository_requirements(s3, optimizer_dir) ELSE s3
          warnings == IF w.install THEN {}
                      ELSE {d \in {problem_dir} : problem_cloned}
                           \cup {d \in {optimizer_dir} : optimizer_cloned}
          problem_config == load_config(s4, problem_dir)
          optimizer_config == load_config(s4, optimizer_dir)
      IN  IF clone_problem /\ ~w.problem_clone
          THEN [s1 EXCEPT !.last = Response(500, "repository_error")]
          ELSE IF clone_optimizer /\ ~w.optimizer_clone
          THEN [s2 EXCEPT !.last = Response(500, "repository_error")]
          ELSE IF problem_config = None \/ optimizer_config = None
                  \/ problem_config # "problem" \/ optimizer_config # "optimizer"
          THEN [s4 EXCEPT !.last = [Response(500, "config_error") EXCEPT
                                       !.warnings = warnings]]
          ELSE [s4 EXCEPT !.last =
                   [status |-> 200,
                    error_type |-> IF w.run = "ok" THEN None ELSE "execution_error",
                    ran |-> TRUE,
                    problem_dir |-> problem_dir, optimizer_dir |-> optimizer_dir,
                    warnings |-> warnings]]

\* __main__: ensure_directories(), app.run(...)
StartServer ==
    /\ pc = "new" /\ srv = NoServer
    /\ srv' = EmptyServer
    /\ pc' = "serving"
    /\ UNCHANGED <<cls, args, bp, da, io_log, stdout, n_loads, ret, ctx>>

\* POST /execute
ExecuteOptimization ==
    /\ pc = "serving"
    /\ \E req \in ExecRequests, w \in ExecWorlds :
          srv' = execute_optimization(srv, req, w)
    /\ UNCHANGED <<cls, pc, args, bp, da, io_log, stdout, n_loads, ret, ctx>>

ExecNext ==
    \/ StartServer
    \/ ExecuteOptimization

ExecSpec == Init /\ [][ExecNext]_vars

-----------------------------------------------------------------------------
(* Properties *)

IsBase == cls = "BaseProblem"
IsTSP == cls = "DatasetAwareTSPProblem"
IsVRP == cls = "DatasetAwareVRPProblem"

\* the accessors that may trigger the lazy load
AccessOps == {"get_dataset_content", "get_dataset_metadata", "get_problem_info"}

\* the DatasetAwareProblem loader caught an exception (it printed its warning)
DALoadFailed == \E i \in 1..Len(stdout) : stdout[i] = "Warning: Failed to load dataset"

\* absent as an identifier: None or empty
Missing(x) == x = None \/ x = ""

\* the resolver as section 4.1 of the specification states it
ReferenceResolve(kind, registry_id, url, local_path) ==
    CASE kind # "auto" -> kind
      [] kind = "auto" /\ ~Missing(registry_id) -> "platform"
      [] kind = "auto" /\ Missing(registry_id) /\ ~Missing(url) -> "url"
      [] kind = "auto" /\ Missing(registry_id) /\ Missing(url) /\ ~Missing(local_path) -> "local"
      [] OTHER -> "none"

\* C1: for every explicit kind and every combination of present and absent
\* (None or empty) identifiers, the source BaseProblem resolves equals the
\* reference resolver: auto gives platform > url > local > none, any
\* other kind is returned unchanged.
C1_ResolverMatchesReference ==
    IsBase =>
        bp.dataset_source =
            ReferenceResolve(args.dataset_source, args.dataset_id,
                             args.dataset_url, args.instance_file)

\* auto-detection skips an empty registry id and picks the URL
C1_Witness ==
    /\ IsBase
    /\ args.dataset_source = "auto"
    /\ args.dataset_id = ""
    /\ args.dataset_url = "https://example.com/data.tsp"
    /\ args.instance_file = "test4.tsp"
    /\ bp.dataset_source = "url"

\* C2: over any sequence of get_dataset_content and get_dataset_metadata
\* calls on one BaseProblem, _load_dataset runs at most once and no request
\* or file read is issued twice, whether the attempt succeeded or failed.
C2_LoadAtMostOnce ==
    IsBase =>
        /\ n_loads <= 1
        /\ Len(io_log) <= 2
        /\ \A i, j \in 1..Len(io_log) : io_log[i].kind = io_log[j].kind => i = j

\* a second access after a failed load that had issued its request
C2_Witness ==
    /\ IsBase
    /\ n_loads = 1
    /\ io_log # <<>>
    /\ bp._dataset_error # None
    /\ ret.op = "get_dataset_metadata"
    /\ ret.fetched = 0

\* C3: once a load has failed the stored error stays on the instance, and
\* every later get_dataset_content raises that same error without a new
\* load, request or file read.
C3_FailureIsCached ==
    [][ (IsBase /\ bp._dataset_loaded /\ bp._dataset_error # None) =>
            /\ bp'._dataset_error = bp._dataset_error
            /\ io_log' = io_log
            /\ n_loads' = n_loads
            /\ ret'.op = "get_dataset_content" =>
                   (ret'.kind = "raise" /\ ret'.error = bp._dataset_error) ]_vars

\* a get_dataset_content call on an already failed instance raised the stored
\* error and fetched nothing
C3_Witness ==
    /\ IsBase
    /\ bp._dataset_loaded
    /\ bp._dataset_error = "FileNotFoundError: Dataset file not found"
    /\ Len(io_log) = 1
    /\ ret.op = "get_dataset_content"
    /\ ret.kind = "raise"
    /\ ret.error = bp._dataset_error
    /\ ret.fetched = 0

C6_Original ==
    (IsBase /\ ret.op = "get_dataset_metadata" /\ bp._dataset_error # None) =>
        ret.kind = "raise"

\* C6 amended: get_dataset_metadata (and get_problem_info, which calls it) on
\* a BaseProblem whose load failed, also when the call itself triggers the
\* failing load, does not raise: it returns the instance's dataset_metadata
\* and leaves the error stored, which only get_dataset_content reports.
C6_Amended ==
    (IsBase /\ ret.op \in {"get_dataset_metadata", "get_problem_info"}
            /\ bp._dataset_error # None) =>
        /\ ret.kind = "return"
        /\ ret.error = None
        /\ ret.metadata = bp.dataset_metadata

\* the metadata access itself triggered the failing load
C6_Witness ==
    /\ IsBase
    /\ ret.op = "get_dataset_metadata"
    /\ ret.fetched > 0
    /\ bp._dataset_error # None
    /\ ret.kind = "return"

\* C7 as stated: whatever value is passed as dataset_source, the stored
\* dataset_source is one of platform, url, local, none.
C7_Original ==
    IsBase => bp.dataset_source \in ConcreteKinds

\* C7 amended: the stored dataset_source is never "auto"; it is one of the
\* four concrete kinds whenever the value passed is "auto" or one of the
\* four; any other value is stored unchanged.
C7_Amended ==
    IsBase =>
        /\ bp.dataset_source # "auto"
        /\ args.dataset_source \in ConcreteKinds \cup {"auto"} =>
              bp.dataset_source \in ConcreteKinds
        /\ args.dataset_source \notin ConcreteKinds \cup {"auto"} =>
              bp.dataset_source = args.dataset_source

\* auto with no identifier resolves to none
C7_Witness ==
    /\ IsBase
    /\ args.dataset_source = "auto"
    /\ Missing(args.dataset_id) /\ Missing(args.dataset_url) /\ Missing(args.instance_file)
    /\ bp.dataset_source = "none"

\* the identifier of the explicitly requested kind is missing
ExplicitIdentifierMissing ==
    \/ args.dataset_source = "platform" /\ Missing(args.dataset_id)
    \/ args.dataset_source = "url" /\ Missing(args.dataset_url)
    \/ args.dataset_source = "local" /\ Missing(args.instance_file)

\* C8: when the explicit kind is platform, url or local and its identifier is
\* missing, the load ends failed with an error and nothing is fetched or
\* read, whatever other identifiers are present, for BaseProblem and for
\* DatasetAwareProblem.
C8_ExplicitKindNeverFallsBack ==
    (n_loads >= 1 /\ ExplicitIdentifierMissing) =>
        /\ io_log = <<>>
        /\ IsBase => (bp._dataset_loaded /\ bp._dataset_error # None
                      /\ bp.dataset_content = NoContent)
        /\ IsTSP => (DALoadFailed /\ da.dataset_content = NoContent)

\* C9: on an instance whose resolved kind is none, the first content or
\* metadata access ends loaded with absent content, empty metadata and no
\* error; get_dataset_content returns None; nothing is fetched or read.
C9_NoneSourceLoadsEmpty ==
    (IsBase /\ bp.dataset_source = "none") =>
        /\ io_log = <<>>
        /\ bp._dataset_error = None
        /\ bp.dataset_content = NoContent
        /\ bp.dataset_metadata = EmptyDict
        /\ ret.op \in {"get_dataset_content", "get_dataset_metadata"} =>
              (bp._dataset_loaded /\ n_loads = 1 /\ ret.kind = "return")
        /\ ret.op = "get_dataset_content" => ret.content = NoContent
        /\ ret.op = "get_dataset_metadata" => ret.metadata = EmptyDict

\* get_dataset_content returned None on a loaded instance of kind none
C9_Witness ==
    /\ IsBase
    /\ bp.dataset_source = "none"
    /\ bp._dataset_loaded
    /\ ret.op = "get_dataset_content"
    /\ ret.kind = "return"
    /\ ret.content = NoContent

\* sum over the positions of t of dm[t[i]][t[(i+1) mod len(t)]]
RECURSIVE SumOver(_, _, _)
SumOver(S, dm, t) ==
    IF S = {} THEN 0
    ELSE LET i == CHOOSE x \in S : TRUE
         IN  dm[t[i + 1] + 1][t[((i + 1) % Len(t)) + 1] + 1] + SumOver(S \ {i}, dm, t)

ReferenceTourCost(dm, t) == SumOver(0..(Len(t) - 1), dm, t)

UnitSquare == << <<0, 0>>, <<1, 0>>, <<1, 1>>, <<0, 1>> >>

\* C10: for a non-empty tour of in-range indices on an instance with a
\* distance matrix, evaluate_solution returns the sum of every consecutive
\* edge plus the edge from the last node back to the first; on the unit
\* square the tour [0, 1, 2, 3] costs exactly 4 (4000 thousandths).
C10_TourCost ==
    (/\ IsTSP
     /\ ret.op = "evaluate_solution"
     /\ ret.tour # <<>>
     /\ da.distance_matrix # <<>>
     /\ \A i \in 1..Len(ret.tour) : ret.tour[i] < Len(da.distance_matrix)) =>
        /\ ret.kind = "return"
        /\ ~ret.inf
        /\ ret.cost = ReferenceTourCost(da.distance_matrix, ret.tour)
        /\ (da.cities = UnitSquare /\ ret.tour = <<0, 1, 2, 3>>) => ret.cost = 4000

\* the unit square's tour was evaluated
C10_Witness ==
    /\ IsTSP
    /\ da.cities = UnitSquare
    /\ ret.op = "evaluate_solution"
    /\ ret.tour = <<0, 1, 2, 3>>
    /\ ret.cost = 4000

\* C11: degenerate evaluation inputs give positive infinity and never
\* raise: the tour evaluator for an empty tour or an instance without a
\* distance matrix, the route evaluator for an empty route list.
C11_DegenerateIsInfinity ==
    /\ (IsTSP /\ ret.op = "evaluate_solution"
              /\ (ret.tour = <<>> \/ da.distance_matrix = <<>>)) =>
          (ret.kind = "return" /\ ret.inf)
    /\ (IsVRP /\ ret.op = "evaluate_solution" /\ ret.routes = <<>>) =>
          (ret.kind = "return" /\ ret.inf)

\* the empty route list was evaluated on an instance with known customers
C11_Witness ==
    /\ IsVRP
    /\ da.customers # <<>>
    /\ ret.op = "evaluate_solution"
    /\ ret.routes = <<>>
    /\ ret.inf

\* every index of every route names a known customer
InRange(customers, routes) ==
    \A r \in 1..Len(routes) : \A i \in 1..Len(routes[r]) :
        routes[r][i] \in 0..(Len(customers) - 1)

\* the places a route passes: the depot, its customers in order, the depot
Stops(depot, customers, route) ==
    <<depot>> \o [i \in 1..Len(route) |-> customers[route[i] + 1]] \o <<depot>>

\* sum of the legs between the consecutive places of P
RECURSIVE LegSum(_, _)
LegSum(P, S) ==
    IF S = {} THEN 0
    ELSE LET i == CHOOSE x \in S : TRUE
         IN  Distance(P[i], P[i + 1]) + LegSum(P, S \ {i})

RECURSIVE RouteSum(_, _, _, _)
RouteSum(depot, customers, routes, S) ==
    IF S = {} THEN 0
    ELSE LET r == CHOOSE x \in S : TRUE
             P == Stops(depot, customers, routes[r])
         IN  LegSum(P, 1..(Len(P) - 1)) + RouteSum(depot, customers, routes, S \ {r})

ReferenceRoutesCost(depot, customers, routes) ==
    RouteSum(depot, customers, routes, 1..Len(routes))

\* C12: for a non-empty list of routes of in-range customer indices the
\* route evaluator returns the sum over routes of depot -> first customer,
\* the consecutive customer legs and last customer -> depot; a route with no
\* customers adds 0; depot (0,0) -> (3,4) -> (3,0) -> depot costs 5 + 4 + 3.
C12_RouteCost ==
    (/\ IsVRP
     /\ ret.op = "evaluate_solution"
     /\ ret.routes # <<>>
     /\ InRange(da.customers, ret.routes)) =>
        /\ ret.kind = "return"
        /\ ~ret.inf
        /\ ret.cost = ReferenceRoutesCost(da.depot, da.customers, ret.routes)
        /\ (\A r \in 1..Len(ret.routes) : ret.routes[r] = <<>>) => ret.cost = 0
        /\ (da.customers = << <<3, 4>>, <<3, 0>> >> /\ ret.routes = << <<0, 1>> >>)
              => ret.cost = 12000

\* two routes over two known customers were costed, one of them empty
C12_Witness ==
    /\ IsVRP
    /\ ret.op = "evaluate_solution"
    /\ da.customers = << <<3, 4>>, <<3, 0>> >>
    /\ ret.routes = << <<0, 1>>, <<>> >>
    /\ ret.kind = "return"
    /\ ret.cost = 12000

\* the route without the indices that name no known customer
KnownOnly(customers, route) ==
    SelectSeq(route, LAMBDA c : c \in 0..(Len(customers) - 1))

\* C13: every customer index outside 0..len(customers)-1, too large or
\* negative, is skipped without raising and adds no leg, for any number of
\* known customers: the cost is that of the routes without those indices.
C13_OutOfRangeSkipped ==
    (/\ IsVRP
     /\ ret.op = "evaluate_solution"
     /\ ret.routes # <<>>) =>
        /\ ret.kind = "return"
        /\ ret.cost = ReferenceRoutesCost(da.depot, da.customers,
                          [r \in 1..Len(ret.routes) |->
                              KnownOnly(da.customers, ret.routes[r])])

\* the payload holds the line `CAPACITY 100` or `CAPACITY: 100`
DeclaresCapacity100(c) ==
    /\ ContentTruthy(c)
    /\ \E i \in 1..Len(c.lines) :
          c.lines[i] \in { <<"CAPACITY", "100">>, <<"CAPACITY:", "100">> }

\* C14: for a payload with a capacity declaration line CAPACITY 100 the
\* constructor's parse does not raise and vehicle_capacity is 100, whatever
\* unrecognised lines surround it, lines mentioning CAPACITY included.
C14_CapacityParsed ==
    (/\ IsVRP
     /\ ret.op = "__init__"
     /\ DeclaresCapacity100(da.dataset_content)) =>
        /\ ret.kind = "return"
        /\ da.vehicle_capacity = 100

\* dm is an n-by-n matrix, symmetric, with a zero diagonal
SquareSymmetric(dm, n) ==
    /\ Len(dm) = n
    /\ \A i \in 1..n :
          /\ Len(dm[i]) = n
          /\ dm[i][i] = 0
          /\ \A j \in 1..n : dm[i][j] = dm[j][i]

\* C15: after DatasetAwareTSPProblem has parsed a payload with at least one
\* coordinate, distance_matrix is n-by-n for the n cities, symmetric, with a
\* zero diagonal, and no later call on the instance changes it.
C15_MatrixShapeAndStable ==
    /\ []((IsTSP /\ pc = "ready" /\ da.cities # <<>>) =>
            SquareSymmetric(da.distance_matrix, Len(da.cities)))
    /\ [][(IsTSP /\ pc = "ready") =>
            da'.distance_matrix = da.distance_matrix]_vars

\* a tour was evaluated on the four-city instance, whose matrix holds the
\* diagonal of the unit square in both directions
C15_Witness ==
    /\ IsTSP
    /\ pc = "ready"
    /\ Len(da.cities) = 4
    /\ ret.op = "evaluate_solution"
    /\ da.distance_matrix[1][3] = 1414
    /\ da.distance_matrix[3][1] = 1414

\* what content sniffing alone says about content c and expected format f
Sniff(c, f) ==
    LET lines == IF c.none THEN <<>> ELSE c.lines
    IN  CASE f = "tsplib" ->
               TextContains(lines, DimensionWords) /\ TextContains(lines, TypeWords)
          [] f = "json" -> lines # <<>> /\ JsonLoads(lines)
          [] f = "csv" ->
               Len(Strip(lines)) > 1 /\ LineContains(Strip(lines)[1], CommaWords)
          [] OTHER -> TRUE

\* C16 as stated: validate_dataset_format decides by content sniffing alone:
\* tsplib exactly when both markers occur, json exactly when the content
\* parses, csv exactly when there is more than one line and the first has a
\* comma, any other expected format is accepted.
C16_Original ==
    (ret.op = "validate_dataset_format") =>
        ret.flag = Sniff(da.dataset_content, ret.expected_format)

\* C16 amended: absent or empty content is rejected whatever the format; a
\* metadata format tag equal to the expected format accepts without looking
\* at the content; otherwise the content sniffing rules decide.
C16_Amended ==
    (ret.op = "validate_dataset_format") =>
        LET c == da.dataset_content
            f == ret.expected_format
        IN  IF ~ContentTruthy(c) THEN ~ret.flag
            ELSE IF <<"format", f>> \in da.dataset_metadata THEN ret.flag
            ELSE ret.flag = Sniff(c, f)

\* a payload that is not JSON was accepted as json on its metadata tag
C16_Witness ==
    /\ ret.op = "validate_dataset_format"
    /\ ret.expected_format = "json"
    /\ da.dataset_content = Text(CsvTest)
    /\ <<"format", "json">> \in da.dataset_metadata
    /\ ret.flag

\* C17: the convenience constructors fix the source kind and store their
\* identifier: from_platform gives 'platform' with the dataset_id and the
\* auth_token of the call, from_url gives 'url' with the dataset_url,
\* from_file gives 'local' with the instance_file; none of them fetches.
C17_ConvenienceConstructors ==
    /\ (ret.op = "from_platform") =>
          /\ bp.dataset_source = "platform"
          /\ bp.dataset_id = args.dataset_id
          /\ bp.auth_token = args.auth_token
    /\ (ret.op = "from_url") =>
          /\ bp.dataset_source = "url"
          /\ bp.dataset_url = args.dataset_url
    /\ (ret.op = "from_file") =>
          /\ bp.dataset_source = "local"
          /\ bp.instance_file = args.instance_file
    /\ (ret.op \in {"from_platform", "from_url", "from_file"}) =>
          /\ IsBase
          /\ io_log = <<>>
          /\ n_loads = 0
          /\ ~bp._dataset_loaded
          /\ bp.dataset_content = NoContent

\* from_platform was called without an id and with a local file among the
\* keyword arguments: the kind is 'platform' all the same
C17_Witness ==
    /\ ret.op = "from_platform"
    /\ args.dataset_id = None
    /\ args.instance_file = "test4.tsp"
    /\ args.auth_token = "token"
    /\ bp.dataset_source = "platform"
    /\ bp.auth_token = "token"

IsDA == IsTSP \/ IsVRP

RegistryKinds == {"GET metadata", "GET download"}

\* the registry requests of the one load come metadata first, payload
\* second, the payload one only after a metadata request that succeeded
RegistryOrder ==
    \A i \in 1..Len(io_log) :
        /\ io_log[i].kind = "GET metadata" => i = 1
        /\ io_log[i].kind = "GET download" =>
              /\ i = 2
              /\ io_log[1].kind = "GET metadata"
              /\ io_log[1].result = "ok"
              /\ io_log[1].target = io_log[2].target

\* one of the registry requests issued so far failed
RegistryRequestFailed ==
    \E i \in 1..Len(io_log) :
        io_log[i].kind \in RegistryKinds /\ io_log[i].result # "ok"

\* the error attribute of the instance, None when it has none
StoredError ==
    IF IsBase THEN bp._dataset_error
    ELSE IF "_dataset_error" \in DOMAIN da THEN da._dataset_error
    ELSE None

ContentOfInstance == IF IsBase THEN bp.dataset_content ELSE da.dataset_content

TokenOfInstance == IF IsBase THEN bp.auth_token ELSE da.auth_token

\* C19: the bearer credential is attached to both registry requests exactly
\* when auth_token is set (not None and not empty), and never to a
\* URL-source request, whatever auth_token the instance holds.
C19_CredentialOnlyToRegistry ==
    \A i \in 1..Len(io_log) :
        /\ io_log[i].kind \in RegistryKinds =>
              (io_log[i].auth <=> Truthy(TokenOfInstance))
        /\ io_log[i].kind = "GET url" => ~io_log[i].auth

\* an instance holding a token has fetched from a URL
C19_Witness ==
    /\ IsBase
    /\ bp.auth_token = "token"
    /\ Len(io_log) = 1
    /\ io_log[1].kind = "GET url"
    /\ ~io_log[1].auth
    /\ bp.dataset_content # NoContent

\* C20: the lazy load of a BaseProblem is one-directional and runs at most
\* once: _dataset_loaded never goes from True back to False, and once it is
\* True no accessor call changes dataset_content, dataset_metadata or the
\* stored error, or loads again.
C20_LoadedIsFinal ==
    [][ (IsBase /\ pc = "ready") =>
            /\ n_loads' <= 1
            /\ bp._dataset_loaded =>
                  /\ bp'._dataset_loaded
                  /\ bp'.dataset_content = bp.dataset_content
                  /\ bp'.dataset_metadata = bp.dataset_metadata
                  /\ bp'._dataset_error = bp._dataset_error
                  /\ n_loads' = n_loads
                  /\ io_log' = io_log ]_vars

\* get_problem_info was called on an instance that had already loaded its
\* content, and fetched nothing
C20_Witness ==
    /\ IsBase
    /\ bp._dataset_loaded
    /\ bp.dataset_content = Text(Square4)
    /\ n_loads = 1
    /\ ret.op = "get_problem_info"
    /\ ret.fetched = 0

\* the contexts whose load has been performed
Loaders == {c \in Contexts : ctx[c].after # Absent}

\* C21: the check of _dataset_loaded and the write of it are not mutually
\* exclusive: a context that found the flag False performs its own load
\* whatever the flag has become since, so two concurrent callers of a
\* not-yet-loaded instance can both pass the check and fetch twice.
C21_EveryPasserLoads ==
    /\ [](pc = "shared" => n_loads = Cardinality(Loaders))
    /\ [][ \A c \in Contexts :
             (pc = "shared" /\ ctx[c].pc = "fetch" /\ ctx'[c].pc # "fetch") =>
                 n_loads' = n_loads + 1 ]_vars

\* both contexts passed the check of a registry instance and each issued
\* the two requests
C21_Witness ==
    /\ pc = "shared"
    /\ args.dataset_source = "platform"
    /\ \A c \in Contexts : ctx[c].pc = "done"
    /\ n_loads = 2
    /\ Len(io_log) = 4

\* the contexts whose load has made its assignments to the instance
WritersDone ==
    {c \in Loaders :
        \/ ctx[c].pc \in {"return", "done"}
        \/ \E i, j \in 1..Len(LoadStepOrder) :
              /\ LoadStepOrder[i] = "write" /\ LoadStepOrder[j] = ctx[c].pc /\ i < j}

\* C29: under concurrent get_dataset_content calls on one BaseProblem no
\* call returns normally before some load has made its writes, because the
\* flag is set only after them: a normal return of an instance with a
\* source hands out the loaded content, never the absent content of a load
\* still in progress.
C29_NoReturnBeforeWrites ==
    (pc = "shared") =>
        \A c \in Contexts :
            (/\ ctx[c].pc = "done"
             /\ ctx[c].op = "get_dataset_content"
             /\ ctx[c].result.kind = "return") =>
                /\ WritersDone # {}
                /\ bp.dataset_source # "none" => ctx[c].result.content # NoContent

\* one context returned the content without loading, on the flag the other
\* context's load had set, while that other context had not returned yet
C29_Witness ==
    /\ pc = "shared"
    /\ args.dataset_source = "platform"
    /\ ctx["c1"].pc = "done"
    /\ ctx["c1"].op = "get_dataset_content"
    /\ ctx["c1"].after = Absent
    /\ ctx["c1"].result.kind = "return"
    /\ ctx["c1"].result.content = Text(Square4)
    /\ ctx["c2"].pc = "return"
    /\ ctx["c2"].after # Absent

\* the smallest element of a non-empty set of numbers
Least(S) == CHOOSE x \in S : \A y \in S : x <= y

\* the elements of a finite set of numbers in increasing order
RECURSIVE Ascending(_)
Ascending(S) == IF S = {} THEN <<>> ELSE <<Least(S)>> \o Ascending(S \ {Least(S)})

\* positions of the lines of c that count as coordinate rows: lines of at
\* least three tokens after the first NODE_COORD_SECTION line and before the
\* first EOF line
CoordinateRows(c) ==
    LET lines == IF c.none THEN <<>> ELSE c.lines
        ends == {i \in 1..Len(lines) : lines[i] = <<"EOF">>}
        eof == IF ends = {} THEN Len(lines) + 1 ELSE Least(ends)
        marks == {i \in 1..(eof - 1) : lines[i] = <<"NODE_COORD_SECTION">>}
    IN  IF marks = {} THEN {}
        ELSE {i \in (Least(marks) + 1)..(eof - 1) : Len(lines[i]) >= 3}

\* the (x, y) of those rows in file order
ReferenceCoordinates(c) ==
    LET rows == Ascending(CoordinateRows(c))
    IN  [k \in 1..Len(rows) |->
            <<FloatVal(c.lines[rows[k]][2]), FloatVal(c.lines[rows[k]][3])>>]

DeclaredLines(c) ==
    {i \in 1..Len(c.lines) : Len(c.lines[i]) = 2 /\ c.lines[i][1] = "DIMENSION:"}

DeclaredDimension(c) ==
    IF c.none \/ DeclaredLines(c) = {} THEN None
    ELSE c.lines[Least(DeclaredLines(c))][2]

\* the text c with d as its declared dimension
Redeclared(c, d) ==
    Text([i \in 1..Len(c.lines) |->
            IF i \in DeclaredLines(c) THEN <<"DIMENSION:", d>> ELSE c.lines[i]])

\* the instance the parser builds from the text c
ParsedFrom(c) ==
    _parse_tsp_data([da EXCEPT !.dataset_content = c,
                               !.cities = <<>>,
                               !.distance_matrix = <<>>]).self

\* C23: when the declared DIMENSION disagrees with the number of
\* coordinates parsed, the distance matrix is n-by-n for the n coordinates
\* parsed, and the declared dimension has no effect on the matrix or on
\* evaluation: any other declared value gives the same matrix and results.
C23_DeclaredDimensionIgnored ==
    (IsTSP /\ pc = "ready" /\ da.cities # <<>>) =>
        /\ Len(da.distance_matrix) = Len(da.cities)
        /\ \A i \in 1..Len(da.cities) : Len(da.distance_matrix[i]) = Len(da.cities)
        /\ \A d \in {"1", "2", "5"} :
              LET other == ParsedFrom(Redeclared(da.dataset_content, d))
              IN  /\ other.cities = da.cities
                  /\ other.distance_matrix = da.distance_matrix
                  /\ ret.op = "evaluate_solution" =>
                        LET v == evaluate_solution(other, ret.tour)
                        IN  /\ (v.kind = "raise") = (ret.kind = "raise")
                            /\ (v.kind = "inf") = ret.inf
                            /\ v.cost = ret.cost

\* a tour was costed on the instance that declares 4 nodes and lists 2
C23_Witness ==
    /\ IsTSP /\ pc = "ready"
    /\ DeclaredDimension(da.dataset_content) = "4"
    /\ Len(da.cities) = 2
    /\ Len(da.distance_matrix) = 2
    /\ ret.op = "evaluate_solution"
    /\ ret.tour = <<0, 1>>
    /\ ret.cost = 10000

\* C24: when parsing yields fewer coordinates than declared, evaluating a
\* tour whose node indices go up to the declared dimension, beyond the
\* parsed count, does not raise.
C24_DeclaredIndicesDoNotRaise ==
    (/\ IsTSP /\ pc = "ready"
     /\ ret.op = "evaluate_solution"
     /\ DeclaredDimension(da.dataset_content) \in IntLits
     /\ Len(da.cities) < IntVal(DeclaredDimension(da.dataset_content))
     /\ \A i \in 1..Len(ret.tour) :
           ret.tour[i] \in 0..(IntVal(DeclaredDimension(da.dataset_content)) - 1)) =>
        ret.kind = "return"

\* C25: parsing never raises on irregular payloads: whatever text was
\* loaded (missing sections, dimension mismatch, malformed or non-numeric
\* tokens), the constructor of a dataset-aware problem completes.
C25_ParsingNeverRaises ==
    (IsDA /\ ret.op = "__init__") => ret.kind = "return"

\* positions of the rows of section `name` in c: the lines after the line
\* `name` up to the next line of a single token (the next marker)
SectionRows(c, name) ==
    LET lines == IF c.none THEN <<>> ELSE c.lines
        starts == {i \in 1..Len(lines) : lines[i] = <<name>>}
    IN  IF starts = {} THEN {}
        ELSE LET s == Least(starts)
                 stops == {i \in (s + 1)..Len(lines) :
                              Len(lines[i]) = 1 /\ lines[i][1] \notin IntLits}
                 stop == IF stops = {} THEN Len(lines) + 1 ELSE Least(stops)
             IN  (s + 1)..(stop - 1)

\* C26: after the capacitated-route parser has processed a payload with a
\* coordinate section and a demand section, customers holds the parsed
\* coordinates and demands one demand per customer in file order, so the
\* two are aligned and non-empty when the sections have rows.
C26_DemandsAlignedWithCustomers ==
    (/\ IsVRP
     /\ ret.op = "__init__" /\ ret.kind = "return"
     /\ SectionRows(da.dataset_content, "NODE_COORD_SECTION") # {}
     /\ SectionRows(da.dataset_content, "DEMAND_SECTION") # {}) =>
        /\ Len(da.customers) =
              Cardinality(SectionRows(da.dataset_content, "NODE_COORD_SECTION"))
        /\ Len(da.demands) = Len(da.customers)
        /\ da.customers # <<>>

\* what one call made alone on the instance gives for the argument of c
AloneResult(c) ==
    LET v == IF IsTSP THEN evaluate_solution(da, ctx[c].input)
             ELSE VRP_evaluate_solution(da, ctx[c].input)
    IN  [kind |-> v.kind, cost |-> v.cost]

\* C27: evaluation is a pure function of the built instance: no step of an
\* evaluate_solution call changes an attribute of the instance, and every
\* call that ran interleaved with another gives what it gives run alone.
C27_EvaluationIsPure ==
    /\ [](pc = "evaluating" =>
            \A c \in Contexts : ctx[c].pc = "done" => ctx[c].result = AloneResult(c))
    /\ [][pc = "evaluating" => da' = da]_vars

\* both contexts finished a call of two or more iterations with a cost, on
\* different arguments
C27_Witness ==
    /\ pc = "evaluating"
    /\ \A c \in Contexts :
          /\ ctx[c].pc = "done" /\ ctx[c].result.kind = "cost"
          /\ Len(ctx[c].input) >= 2 /\ ctx[c].result.cost > 0
    /\ ctx["c1"].input # ctx["c2"].input
    /\ IsVRP /\ da.customers # <<>>

\* C28: a failed load leaves the loaded data at its initial empty values:
\* whenever a BaseProblem load has ended with a stored error, dataset_content
\* is absent and dataset_metadata is the empty map, also when the metadata
\* request succeeded and the download failed.
C28_FailedLoadLeavesNothing ==
    (IsBase /\ bp._dataset_loaded /\ bp._dataset_error # None) =>
        /\ bp.dataset_content = NoContent
        /\ bp.dataset_metadata = EmptyDict

\* C30: in the /execute endpoint, over any sequence of requests, an
\* optimization is only ever run with repositories whose requirements
\* installation has been attempted since they were cloned, also when a
\* directory was left behind by an earlier request that aborted.
C30_RunOnlyAfterInstall ==
    (~srv.absent /\ srv.last.ran) =>
        {srv.last.problem_dir, srv.last.optimizer_dir} \subseteq srv.installed

====
